---- MODULE Spec2Model ----
(***************************************************************************)
(* The graph visualizer of src/bin/g3.rs: the ingestion thread             *)
(* (parse_input) and the UI thread (GraphVisualizerApp::update and the     *)
(* methods it calls) over the shared graph, position map and histogram.    *)
(*                                                                         *)
(* Coordinates are integers in graph units.  A frame of update is a        *)
(* sequence of phases, one per block of the function, so that the          *)
(* ingestion thread's critical section can fall between any two of them.   *)
(* The viewport (zoom_level, pan_offset, min_zoom_level) is kept as exact  *)
(* fractions.  A pointer position of the selection and drag handlers is    *)
(* given in graph space, as screen_to_graph_pos returns it; the position   *)
(* of a wheel turn is given in screen space, as handle_zoom receives it.   *)
(* The floating-point force arithmetic of update_layout is                 *)
(* an input of the simulation phase: the velocity every node has before    *)
(* the MAX_VELOCITY clamp.                                                 *)
(*                                                                         *)
(* attracted, stepped, drawn, slider_moved and released record what the    *)
(* phases of the frame under way did; no phase reads them.                 *)
(***************************************************************************)
EXTENDS Integers, Sequences, FiniteSets, TLC

VARIABLES
    weighted,               \* Args.weighted / GraphVisualizerApp.weighted
    input,                  \* the lines of the input, each a sequence of tokens
    pc_in,                  \* position of the ingestion thread
    unique_nodes,           \* parse_input: labels not yet added to the graph
    edges,                  \* parse_input: edge triples not yet added
    loc_min, loc_max,       \* parse_input: min_weight, max_weight
    node_indices,           \* parse_input: label -> index
    graph_nodes,            \* graph_data: node weights (labels) by index + 1
    graph_edges,            \* graph_data: edges, [a, b, w], by edge index + 1
    positions,              \* positions: index -> <<x, y>>
    histogram,              \* weight_histogram: [min, max]
    graph_lock,             \* holder of the graph_data mutex
    positions_lock,         \* holder of the positions mutex
    hist_lock,              \* holder of the weight_histogram mutex
    pc_ui,                  \* position of the UI thread inside update
    min_weight,
    velocities,             \* index -> <<vx, vy>>
    is_dragging,            \* NoNode or a node index
    running_simulation,
    components,             \* sequence of sequences of node indices
    initialized,
    interaction_mode,       \* "Pan" or "Select"
    selected_nodes,
    preview_nodes,
    drag_start, drag_end,   \* NoPoint or a point
    initial_layout_complete,
    simulation_start_time,  \* NoTime or the time elapsed since the instant, in units of 2 s
    frame_count,
    pointer_drag,           \* egui: a drag of the central panel is in progress
    attracted,              \* edges whose spring force the last update_layout computed
    stepped,                \* update_layout ran in the frame under way
    drawn,                  \* edges the last draw phase painted
    slider_moved,           \* the weight slider changed in the frame under way
    released,               \* the lasso release handled in the frame under way
    zoom_level,             \* a fraction
    pan_offset,             \* a pair of fractions
    min_zoom_level,         \* a fraction
    view_ops,               \* wheel turns and arrow-key frames received so far
    fine_positions,         \* index -> <<x, y>> in thousandths of a graph unit
    fine_velocities         \* index -> <<vx, vy>> in thousandths of a graph unit

shared == <<graph_nodes, graph_edges, positions, histogram>>
locks  == <<graph_lock, positions_lock, hist_lock>>
ingest == <<pc_in, unique_nodes, edges, loc_min, loc_max, node_indices>>
args   == <<weighted, input>>
sel    == <<selected_nodes, preview_nodes, drag_start, drag_end>>
sim    == <<velocities, running_simulation, components, simulation_start_time,
            frame_count, attracted, stepped>>
app    == <<min_weight, is_dragging, initialized, interaction_mode,
            initial_layout_complete, pointer_drag, drawn, slider_moved>>
view   == <<zoom_level, pan_offset, min_zoom_level, view_ops>>
fine   == <<fine_positions, fine_velocities>>
vars   == <<args, ingest, shared, locks, pc_ui, sel, sim, app, released, view, fine>>

\* the None of an Option: of a node index, of an instant, of a point
NoNode == 0 - 1
NoTime == 0 - 1
NoPoint == <<>>
\* no lasso was released in the frame; otherwise <<ctrl, shift, selection before, preview>>
NoRelease == <<>>

(***************************************************************************)
(* Bounds of the model.                                                    *)
(***************************************************************************)
MaxRows == 2        \* lines of input
MaxFrames == 3      \* frames a simulation run is followed for before it settles
MaxViewOps == 2     \* wheel turns and arrow-key frames a run receives
MaxDen == 300       \* largest denominator of a viewport that receives one of them

(***************************************************************************)
(* Program constants.                                                      *)
(***************************************************************************)
MAX_VELOCITY == 20
MIN_MOVEMENT == 10
COMPONENT_SPACING == 500
NODE_RADIUS == 12
F64_INFINITY == 1000        \* stands for f64::INFINITY: above every weight
WindowW == 1024
WindowH == 600

NEG_INFINITY == -F64_INFINITY

(***************************************************************************)
(* Tokens and lines.  str::parse::<f64> accepts "1.0" and "5.0" among the  *)
(* tokens of the model and rejects the labels.                             *)
(***************************************************************************)
IsNumber(tok) == tok \in {"1.0", "5.0"}

ParseF64(tok) == IF tok = "1.0" THEN 1 ELSE 5

RowPoolU == { <<>>, <<"c">>, <<"a", "b">>, <<"b", "a">>, <<"b", "c">>,
              <<"a", "b", "c">> }

RowPoolW == { <<>>, <<"a", "b", "1.0">>, <<"b", "a", "5.0">>, <<"b", "c", "5.0">>,
              <<"a", "c", "1.0">>, <<"a", "a", "1.0">>, <<"a", "b">>,
              <<"a", "b", "c">> }

SeqsUpTo(S, n) == UNION { [1..k -> S] : k \in 0..n }

Range(s) == { s[i] : i \in DOMAIN s }

Min(a, b) == IF a < b THEN a ELSE b
Max(a, b) == IF a > b THEN a ELSE b

(***************************************************************************)
(* parse_input, lines 1039-1077: the scan of the lines.                    *)
(***************************************************************************)
\* a weighted line indexes parts[1] and parts[2] and unwraps the parse
RowPanics(row) == Len(row) > 0 /\ (Len(row) < 3 \/ ~IsNumber(row[3]))

RowNodes(row, w) ==
    IF Len(row) = 0 THEN {}
    ELSE IF w THEN {row[1], row[2]}
    ELSE Range(row)

RECURSIVE PairsFrom(_, _, _)
PairsFrom(row, i, j) ==
    IF i > Len(row) THEN <<>>
    ELSE IF j > Len(row) THEN PairsFrom(row, i + 1, i + 2)
    ELSE <<[n1 |-> row[i], n2 |-> row[j], w |-> 1]>> \o PairsFrom(row, i, j + 1)

RowEdges(row, w) ==
    IF Len(row) = 0 THEN <<>>
    ELSE IF w THEN <<[n1 |-> row[1], n2 |-> row[2], w |-> ParseF64(row[3])]>>
    ELSE IF Len(row) >= 2 THEN PairsFrom(row, 1, 2)
    ELSE <<>>

RECURSIVE ScanNodes(_, _)
ScanNodes(rows, w) ==
    IF rows = <<>> THEN {} ELSE RowNodes(Head(rows), w) \cup ScanNodes(Tail(rows), w)

RECURSIVE ScanEdges(_, _)
ScanEdges(rows, w) ==
    IF rows = <<>> THEN <<>> ELSE RowEdges(Head(rows), w) \o ScanEdges(Tail(rows), w)

ScanPanics(rows, w) == w /\ \E i \in DOMAIN rows : RowPanics(rows[i])

RECURSIVE MinWeightOf(_)
MinWeightOf(es) ==
    IF es = <<>> THEN F64_INFINITY ELSE Min(Head(es).w, MinWeightOf(Tail(es)))

RECURSIVE MaxWeightOf(_)
MaxWeightOf(es) ==
    IF es = <<>> THEN NEG_INFINITY ELSE Max(Head(es).w, MaxWeightOf(Tail(es)))

(***************************************************************************)
(* cos and sin of 2*pi*i/n in thousandths, for the node counts the model   *)
(* reaches, and the point at that angle on a circle.                       *)
(***************************************************************************)
Cos1000(i, n) ==
    CASE n = 1 -> 1000
      [] n = 2 -> IF i = 0 THEN 1000 ELSE -1000
      [] n = 3 -> IF i = 0 THEN 1000 ELSE -500
      [] n = 4 -> IF i = 0 THEN 1000 ELSE IF i = 2 THEN -1000 ELSE 0
      [] OTHER -> 1000

Sin1000(i, n) ==
    CASE n = 1 -> 0
      [] n = 2 -> 0
      [] n = 3 -> IF i = 0 THEN 0 ELSE IF i = 1 THEN 866 ELSE -866
      [] n = 4 -> IF i = 1 THEN 1000 ELSE IF i = 3 THEN -1000 ELSE 0
      [] OTHER -> 0

\* x / 1000 rounded toward zero, as a product radius * cos
Milli(x) == IF x >= 0 THEN x \div 1000 ELSE -((-x) \div 1000)

CirclePoint(i, n, radius, cx, cy) ==
    <<Milli(radius * Cos1000(i, n)) + cx, Milli(radius * Sin1000(i, n)) + cy>>

Put(f, k, v) == [x \in (DOMAIN f) \cup {k} |-> IF x = k THEN v ELSE f[x]]

(***************************************************************************)
(* The graph (petgraph Graph<String, f64, Undirected>).                    *)
(***************************************************************************)
NodeIds == 0 .. (Len(graph_nodes) - 1)

\* the test of a directed graph: an edge from a to b
contains_edge_directed(es, a, b) ==
    \E i \in DOMAIN es : es[i].a = a /\ es[i].b = b

contains_edge(es, a, b) ==
    \E i \in DOMAIN es : (es[i].a = a /\ es[i].b = b) \/ (es[i].a = b /\ es[i].b = a)

Free(l) == l = "free"

(***************************************************************************)
(* The ingestion thread: parse_input.                                      *)
(***************************************************************************)
AfterNodes(un, es) ==
    IF un # {} THEN "nodes" ELSE IF es # <<>> THEN "edges" ELSE "finish"

\* lines 1039-1079: the scan; a malformed weighted line panics the thread
IngestRead ==
    /\ pc_in = "read"
    /\ IF ScanPanics(input, weighted)
       THEN /\ pc_in' = "panicked"
            /\ UNCHANGED <<unique_nodes, edges, loc_min, loc_max>>
       ELSE /\ pc_in' = "lock_graph"
            /\ unique_nodes' = ScanNodes(input, weighted)
            /\ edges' = ScanEdges(input, weighted)
            /\ loc_min' = IF weighted THEN MinWeightOf(ScanEdges(input, weighted))
                          ELSE F64_INFINITY
            /\ loc_max' = IF weighted THEN MaxWeightOf(ScanEdges(input, weighted))
                          ELSE NEG_INFINITY
    /\ UNCHANGED <<released, view, args, fine, node_indices, shared, locks, pc_ui, sel, sim, app>>

\* parse_input building the graph without the guard of line 1081
IngestLockGraph_unlocked ==
    /\ pc_in = "lock_graph"
    /\ pc_in' = "lock_pos"
    /\ UNCHANGED <<released, view, args, fine, unique_nodes, edges, loc_min, loc_max, node_indices, shared,
                   locks, pc_ui, sel, sim, app>>

\* line 1081
IngestLockGraph ==
    /\ pc_in = "lock_graph"
    /\ Free(graph_lock)
    /\ graph_lock' = "ingest"
    /\ pc_in' = "lock_pos"
    /\ UNCHANGED <<released, view, args, fine, unique_nodes, edges, loc_min, loc_max, node_indices, shared,
                   positions_lock, hist_lock, pc_ui, sel, sim, app>>

\* line 1082
IngestLockPositions ==
    /\ pc_in = "lock_pos"
    /\ Free(positions_lock)
    /\ positions_lock' = "ingest"
    /\ pc_in' = AfterNodes(unique_nodes, edges)
    /\ UNCHANGED <<released, view, args, fine, unique_nodes, edges, loc_min, loc_max, node_indices, shared,
                   graph_lock, hist_lock, pc_ui, sel, sim, app>>

\* lines 1094-1101, one iteration; the HashSet yields its labels in any order
IngestAddNode ==
    /\ pc_in = "nodes"
    /\ \E name \in unique_nodes :
         LET index == Len(graph_nodes)
             count == Cardinality(unique_nodes) + Len(graph_nodes)
         IN  /\ graph_nodes' = Append(graph_nodes, name)
             /\ positions' = Put(positions, index,
                                 CirclePoint(index, count, 200, 400, 300))
             /\ node_indices' = Put(node_indices, name, index)
             /\ unique_nodes' = unique_nodes \ {name}
             /\ pc_in' = AfterNodes(unique_nodes \ {name}, edges)
    /\ UNCHANGED <<released, view, args, fine, edges, loc_min, loc_max, graph_edges, histogram, locks,
                   pc_ui, sel, sim, app>>

\* lines 1104-1120, one iteration
IngestAddEdge ==
    /\ pc_in = "edges"
    /\ LET e  == Head(edges)
           i1 == node_indices[e.n1]
           i2 == node_indices[e.n2]
       IN  /\ graph_edges' = IF ~contains_edge(graph_edges, i1, i2)
                             THEN Append(graph_edges, [a |-> i1, b |-> i2, w |-> e.w])
                             ELSE graph_edges
           /\ edges' = Tail(edges)
           /\ pc_in' = AfterNodes({}, Tail(edges))
    /\ UNCHANGED <<released, view, args, fine, unique_nodes, loc_min, loc_max, node_indices, graph_nodes,
                   positions, histogram, locks, pc_ui, sel, sim, app>>

\* lines 1121-1128: the histogram, then the guards drop as the function returns
IngestFinish ==
    /\ pc_in = "finish"
    /\ weighted => Free(hist_lock)
    /\ histogram' = IF weighted THEN [min |-> loc_min, max |-> loc_max] ELSE histogram
    /\ graph_lock' = "free"
    /\ positions_lock' = "free"
    /\ hist_lock' = hist_lock
    /\ pc_in' = "done"
    /\ UNCHANGED <<released, view, args, fine, unique_nodes, edges, loc_min, loc_max, node_indices,
                   graph_nodes, graph_edges, positions, pc_ui, sel, sim, app>>

Ingest ==
    \/ IngestRead
    \/ IngestLockGraph
    \/ IngestLockPositions
    \/ IngestAddNode
    \/ IngestAddEdge
    \/ IngestFinish

(***************************************************************************)
(* Graph queries.                                                          *)
(***************************************************************************)
RECURSIVE Rev(_)
Rev(s) == IF s = <<>> THEN <<>> ELSE Append(Rev(Tail(s)), Head(s))

RECURSIVE OutOf(_, _)
OutOf(es, n) ==
    IF es = <<>> THEN <<>>
    ELSE IF Head(es).a = n THEN <<Head(es).b>> \o OutOf(Tail(es), n)
    ELSE OutOf(Tail(es), n)

RECURSIVE InTo(_, _)
InTo(es, n) ==
    IF es = <<>> THEN <<>>
    ELSE IF Head(es).b = n /\ Head(es).a # n THEN <<Head(es).a>> \o InTo(Tail(es), n)
    ELSE InTo(Tail(es), n)

\* Graph::neighbors of an undirected graph: the edges from n, newest first,
\* then the edges to n, newest first (a self-loop is met once)
neighbors(es, n) == OutOf(Rev(es), n) \o InTo(Rev(es), n)

\* Graph::find_edge of an undirected graph: the index of an edge between a and b
find_edge(es, a, b) ==
    CHOOSE i \in DOMAIN es :
        (es[i].a = a /\ es[i].b = b) \/ (es[i].a = b /\ es[i].b = a)

RECURSIVE PushUnseen(_, _, _)
PushUnseen(stack, ns, seen) ==
    IF ns = <<>> THEN stack
    ELSE PushUnseen(IF Head(ns) \in seen THEN stack ELSE Append(stack, Head(ns)),
                    Tail(ns), seen)

Top(stack) == stack[Len(stack)]
Pop(stack) == SubSeq(stack, 1, Len(stack) - 1)

\* one turn of the loop of petgraph's DfsPostOrder::next
PostOrderStep(es, st) ==
    LET nx == Top(st.stack)
    IN  IF nx \notin st.discovered
        THEN [st EXCEPT !.stack = PushUnseen(st.stack, neighbors(es, nx),
                                             st.discovered \cup {nx}),
                        !.discovered = st.discovered \cup {nx}]
        ELSE IF nx \notin st.finished
        THEN [st EXCEPT !.stack = Pop(st.stack),
                        !.finished = st.finished \cup {nx},
                        !.out = Append(st.out, nx)]
        ELSE [st EXCEPT !.stack = Pop(st.stack)]

\* DfsPostOrder::next run to exhaustion: out is the finish order.  (The state
\* of each turn is bound as a value before the next turn reads it.)
RECURSIVE PostOrder(_, _)
PostOrder(es, st) ==
    IF st.stack = <<>> THEN st
    ELSE CHOOSE r \in { PostOrder(es, x) : x \in {PostOrderStep(es, st)} } : TRUE

\* one turn of the loop of petgraph's Dfs::next
DfsStep(es, st) ==
    LET nx == Top(st.stack)
    IN  IF nx \notin st.discovered
        THEN [st EXCEPT !.stack = PushUnseen(Pop(st.stack), neighbors(es, nx),
                                             st.discovered \cup {nx}),
                        !.discovered = st.discovered \cup {nx},
                        !.out = Append(st.out, nx)]
        ELSE [st EXCEPT !.stack = Pop(st.stack)]

\* Dfs::next run to exhaustion: out is the nodes reached, in visit order
RECURSIVE DfsFrom(_, _)
DfsFrom(es, st) ==
    IF st.stack = <<>> THEN st
    ELSE CHOOSE r \in { DfsFrom(es, x) : x \in {DfsStep(es, st)} } : TRUE

\* first phase of kosaraju_scc: finishing order over the nodes 0 .. n-1
RECURSIVE FinishOrder(_, _, _, _)
FinishOrder(es, i, n, st) ==
    IF i >= n THEN st.out
    ELSE IF i \in st.discovered THEN FinishOrder(es, i + 1, n, st)
    ELSE CHOOSE r \in { FinishOrder(es, i + 1, n, x) :
                        x \in {PostOrder(es, [st EXCEPT !.stack = <<i>>])} } : TRUE

\* second phase: one Dfs per undiscovered leader, in decreasing finishing time
RECURSIVE Sccs(_, _, _, _)
Sccs(es, order, discovered, sccs) ==
    IF order = <<>> THEN sccs
    ELSE IF Head(order) \in discovered THEN Sccs(es, Tail(order), discovered, sccs)
    ELSE CHOOSE r \in
           { Sccs(es, Tail(order), x.discovered, Append(sccs, x.out)) :
             x \in {DfsFrom(es, [stack |-> <<Head(order)>>,
                                 discovered |-> discovered, out |-> <<>>])} } : TRUE

kosaraju_scc(ns, es) ==
    Sccs(es,
         Rev(FinishOrder(es, 0, Len(ns),
                         [stack |-> <<>>, discovered |-> {}, finished |-> {},
                          out |-> <<>>])),
         {}, <<>>)

\* the components of the graph without its newest edge
find_components_stale(ns, es) ==
    kosaraju_scc(ns, IF es = <<>> THEN es ELSE Pop(es))

\* find_components, lines 778-782
find_components(ns, es) == kosaraju_scc(ns, es)

(***************************************************************************)
(* Points and vectors.                                                     *)
(***************************************************************************)
ZERO == <<0, 0>>
VAdd(p, q) == <<p[1] + q[1], p[2] + q[2]>>
VSub(p, q) == <<p[1] - q[1], p[2] - q[2]>>
Len2(v) == v[1] * v[1] + v[2] * v[2]
Dist2(p, q) == Len2(VSub(p, q))

ISqrt(k) == CHOOSE r \in 0..k : r * r <= k /\ (r + 1) * (r + 1) > k

ISqrtCeil(k) == CHOOSE r \in 0..k : r * r >= k /\ (r = 0 \/ (r - 1) * (r - 1) < k)

SDiv(x, d) == IF x >= 0 THEN x \div d ELSE -((-x) \div d)

\* Rect::from_two_pos(a, b).contains(p)
InRect(p, a, b) ==
    /\ Min(a[1], b[1]) <= p[1] /\ p[1] <= Max(a[1], b[1])
    /\ Min(a[2], b[2]) <= p[2] /\ p[2] <= Max(a[2], b[2])

SetMin(S) == CHOOSE x \in S : \A y \in S : x <= y
SetMax(S) == CHOOSE x \in S : \A y \in S : x >= y

(***************************************************************************)
(* The f32 values of the viewport, as exact fractions <<n, d>> in lowest   *)
(* terms with d >= 0: <<1, 0>> is +infinity, <<-1, 0>> is -infinity and    *)
(* <<0, 0>> is NaN, so that a division by a zero extent gives what the     *)
(* f32 division gives.  Rounding is not modelled.                          *)
(***************************************************************************)
RECURSIVE Gcd(_, _)
Gcd(a, b) ==
    IF b = 0 THEN a
    ELSE CHOOSE r \in { Gcd(x[1], x[2]) : x \in {<<b, a % b>>} } : TRUE

Abs(x) == IF x < 0 THEN -x ELSE x
Sign(x) == IF x < 0 THEN -1 ELSE IF x > 0 THEN 1 ELSE 0

\* n / d in lowest terms.  Here and below an operand is bound to its value
\* before it is used, so that it is evaluated once.
Frac(n, d) ==
    CHOOSE r \in { IF y = 0 THEN <<Sign(x), 0>>
                   ELSE CHOOSE q \in { <<Sign(y) * (x \div g), Abs(y) \div g>> :
                                        g \in {Gcd(Abs(x), Abs(y))} } : TRUE :
                   x \in {n}, y \in {d} } : TRUE

Whole(k) == <<k, 1>>
NaN == <<0, 0>>
IsNaN(a) == a = NaN
IsFinite(a) == a[2] # 0

FAdd(a, b) ==
    CHOOSE r \in { IF x[2] = 0 /\ y[2] = 0
                   THEN (IF x = y THEN x ELSE NaN)
                   ELSE CHOOSE q \in { Frac(x[1] * (y[2] \div g) + y[1] * (x[2] \div g),
                                             x[2] * (y[2] \div g)) :
                                        g \in {Gcd(x[2], y[2])} } : TRUE :
                   x \in {a}, y \in {b} } : TRUE
FNeg(a) == CHOOSE r \in { <<-x[1], x[2]>> : x \in {a} } : TRUE
FSub(a, b) == FAdd(a, FNeg(b))
\* the common factors are cancelled across before the products are taken
FMul(a, b) ==
    CHOOSE r \in {
        CHOOSE q \in { IF g = 0 \/ k = 0 THEN Frac(x[1] * y[1], x[2] * y[2])
                       ELSE Frac((x[1] \div g) * (y[1] \div k),
                                 (x[2] \div k) * (y[2] \div g)) :
                       g \in {Gcd(Abs(x[1]), y[2])}, k \in {Gcd(Abs(y[1]), x[2])} } : TRUE :
        x \in {a}, y \in {b} } : TRUE
FDiv(a, b) ==
    CHOOSE r \in { IF x[2] = 0 /\ y[2] = 0 THEN NaN
                   ELSE FMul(x, Frac(y[2] * (IF y[1] < 0 THEN -1 ELSE 1), Abs(y[1]))) :
                   x \in {a}, y \in {b} } : TRUE

\* a < b and a <= b of f32: false when either side is NaN
FLt(a, b) ==
    \E x \in {a}, y \in {b} :
        /\ ~IsNaN(x) /\ ~IsNaN(y)
        /\ IF x[2] = 0 /\ y[2] = 0 THEN x[1] < y[1]
           ELSE x[1] * y[2] < y[1] * x[2]
FLe(a, b) == \E x \in {a}, y \in {b} : ~IsNaN(x) /\ ~IsNaN(y) /\ (x = y \/ FLt(x, y))

\* f32::min: the other operand when one is NaN
FMin(a, b) ==
    CHOOSE r \in { IF IsNaN(x) THEN y ELSE IF IsNaN(y) THEN x
                   ELSE IF FLt(y, x) THEN y ELSE x : x \in {a}, y \in {b} } : TRUE

\* f32::clamp asserts lo <= hi, which fails as well when either is NaN
ClampPanics(lo, hi) == ~FLe(lo, hi)
FClamp(v, lo, hi) ==
    CHOOSE r \in { IF FLt(x, l) THEN l ELSE IF FLt(u, x) THEN u ELSE x :
                   x \in {v}, l \in {lo}, u \in {hi} } : TRUE

\* |a| < f32::EPSILON = 2^-23, for a finite a
EPSILON_INV == 8388608
BelowEpsilon(a) == \E x \in {a} : IsFinite(x) /\ Abs(x[1]) <= (x[2] - 1) \div EPSILON_INV

ZOOM_MAX == Whole(5)

(***************************************************************************)
(* fit_to_view, lines 698-762.  Of its results the model keeps whether the *)
(* clamp of line 749 panics: f32::clamp asserts min <= max, and the lower  *)
(* bound of a full-graph fit is min(zoom_x, zoom_y) * 0.8, which exceeds   *)
(* 5.0 exactly when available / (extent * 1.4) > 6.25 on both axes, that   *)
(* is when 35 * extent < 4 * available (a zero extent gives infinity).     *)
(* A selection fit clamps between min_zoom_level * 0.1 and 5.0; the        *)
(* min_zoom_level left by a full fit that returned is at most 5.0.         *)
(***************************************************************************)
fit_to_view_panics(pos, selected, w, h) ==
    /\ DOMAIN pos # {}
    /\ selected = {}
    /\ LET xs == { pos[n][1] : n \in DOMAIN pos }
           ys == { pos[n][2] : n \in DOMAIN pos }
       IN  /\ 35 * (SetMax(xs) - SetMin(xs)) < 4 * w
           /\ 35 * (SetMax(ys) - SetMin(ys)) < 4 * h

\* a fit that stores the lower bound of a selection fit as the minimum zoom
fit_min_zoom_lowered(is_selection, fit, min_zoom) ==
    IF is_selection THEN FMul(min_zoom, Frac(1, 10)) ELSE FMul(fit, Frac(8, 10))

\* lines 737-740: only a fit of the full graph updates min_zoom_level
fit_min_zoom(is_selection, fit, min_zoom) ==
    IF is_selection THEN min_zoom ELSE FMul(fit, Frac(8, 10))

\* the value fit_to_view leaves in the viewport, and whether line 749 panicked
\* (then min_zoom_level was assigned at line 739 and nothing after it)
fit_to_view(pos, selected, w, h, zoom, pan, min_zoom) ==
    IF DOMAIN pos = {}
    THEN [panics |-> FALSE, zoom_level |-> zoom, pan_offset |-> pan,
          min_zoom_level |-> min_zoom]
    ELSE
    LET is_selection == selected # {}
        fitted   == IF is_selection THEN selected \cap DOMAIN pos ELSE DOMAIN pos
        xs       == { pos[n][1] : n \in fitted }
        ys       == { pos[n][2] : n \in fitted }
        \* no node found: f32::MIN - f32::MAX overflows to -infinity
        width    == IF fitted = {} THEN <<-1, 0>> ELSE Whole(SetMax(xs) - SetMin(xs))
        height   == IF fitted = {} THEN <<-1, 0>> ELSE Whole(SetMax(ys) - SetMin(ys))
        padding  == IF is_selection THEN Whole(2) ELSE Frac(14, 10)
        zoom_x   == FDiv(Whole(w), FMul(width, padding))
        zoom_y   == FDiv(Whole(h), FMul(height, padding))
        fit      == FMin(zoom_x, zoom_y)
        new_min  == fit_min_zoom(is_selection, fit, min_zoom)
        lower    == IF is_selection THEN FMul(new_min, Frac(1, 10)) ELSE new_min
        new_zoom == FClamp(fit, lower, ZOOM_MAX)
        center_x == IF fitted = {} THEN Whole(0) ELSE Frac(SetMin(xs) + SetMax(xs), 2)
        center_y == IF fitted = {} THEN Whole(0) ELSE Frac(SetMin(ys) + SetMax(ys), 2)
    IN  IF ClampPanics(lower, ZOOM_MAX)
        THEN [panics |-> TRUE, zoom_level |-> zoom, pan_offset |-> pan,
              min_zoom_level |-> new_min]
        ELSE [panics |-> FALSE, zoom_level |-> new_zoom,
              pan_offset |-> <<FSub(Frac(w, 2), FMul(center_x, new_zoom)),
                               FSub(Frac(h, 2), FMul(center_y, new_zoom))>>,
              min_zoom_level |-> new_min]

\* a zoom that leaves the pan offset alone
handle_zoom_unanchored(scroll_delta, center_pos, zoom, pan, min_zoom) ==
    LET zoom_factor == IF scroll_delta > 0 THEN Frac(11, 10) ELSE Frac(9, 10)
    IN  [panics |-> ClampPanics(min_zoom, ZOOM_MAX),
         zoom_level |-> IF ClampPanics(min_zoom, ZOOM_MAX) THEN zoom
                        ELSE FClamp(FMul(zoom, zoom_factor), min_zoom, ZOOM_MAX),
         pan_offset |-> pan]

\* handle_zoom, lines 682-696
handle_zoom(scroll_delta, center_pos, zoom, pan, min_zoom) ==
    LET zoom_factor == IF scroll_delta > 0 THEN Frac(11, 10) ELSE Frac(9, 10)
        new_zoom    == FClamp(FMul(zoom, zoom_factor), min_zoom, ZOOM_MAX)
        ratio       == FDiv(new_zoom, zoom)
        c           == <<Whole(center_pos[1]), Whole(center_pos[2])>>
    IN  IF ClampPanics(min_zoom, ZOOM_MAX)
        THEN [panics |-> TRUE, zoom_level |-> zoom, pan_offset |-> pan]
        ELSE IF BelowEpsilon(FSub(new_zoom, zoom))
        THEN [panics |-> FALSE, zoom_level |-> new_zoom, pan_offset |-> pan]
        ELSE [panics |-> FALSE, zoom_level |-> new_zoom,
              pan_offset |-> <<FAdd(c[1], FMul(FSub(pan[1], c[1]), ratio)),
                               FAdd(c[2], FMul(FSub(pan[2], c[2]), ratio))>>]

\* lines 764-769, on a point of fractions
graph_to_screen_pos(pos, zoom, pan) ==
    <<FAdd(FMul(pos[1], zoom), pan[1]), FAdd(FMul(pos[2], zoom), pan[2])>>

\* graph_to_screen_pos without the pan offset
screen_to_graph_pos_unpanned(pos, zoom, pan) ==
    <<FDiv(pos[1], zoom), FDiv(pos[2], zoom)>>

\* lines 771-776
screen_to_graph_pos(pos, zoom, pan) ==
    <<FDiv(FSub(pos[1], pan[1]), zoom), FDiv(FSub(pos[2], pan[2]), zoom)>>

\* the viewport after self.fit_to_view(window_size) on the position map pos
FitToView(pos) ==
    \E fit \in {fit_to_view(pos, selected_nodes, WindowW, WindowH,
                            zoom_level, pan_offset, min_zoom_level)} :
        /\ zoom_level' = fit.zoom_level
        /\ pan_offset' = fit.pan_offset
        /\ min_zoom_level' = fit.min_zoom_level
        /\ UNCHANGED view_ops

(***************************************************************************)
(* reset_layout, lines 784-823.                                            *)
(***************************************************************************)
CompOf(comps, v) == CHOOSE c \in DOMAIN comps : v \in Range(comps[c])
IndexIn(s, v) == CHOOSE i \in DOMAIN s : s[i] = v
CompNodes(comps) == UNION { Range(comps[c]) : c \in DOMAIN comps }

\* every node on the center of the first grid cell
Placement_on_center(comps, v) ==
    <<COMPONENT_SPACING \div 2, COMPONENT_SPACING \div 2>>

\* lines 796-812: the grid cell of the component and the point on its circle
Placement(comps, v) ==
    LET per_row  == ISqrtCeil(Len(comps))
        comp_idx == CompOf(comps, v) - 1
        row      == comp_idx \div per_row
        col      == comp_idx % per_row
        center_x == col * COMPONENT_SPACING + COMPONENT_SPACING \div 2
        center_y == row * COMPONENT_SPACING + COMPONENT_SPACING \div 2
        comp     == comps[comp_idx + 1]
    IN  CirclePoint(IndexIn(comp, v) - 1, Len(comp), 150, center_x, center_y)

\* lines 814-816: (cos, sin)(0.1 * index) * 2.0, rounded to graph units
SeedVelocity(v) == IF v < 3 THEN <<2, 0>> ELSE <<2, 1>>

\* thousandths in a graph unit
FINE == 1000

\* the nodes of a component on a spiral: the radius grows with the index
FinePlacement_spiral(comps, v) ==
    LET comp == comps[CompOf(comps, v)]
        i    == IndexIn(comp, v) - 1
    IN  <<50 * (i + 1) * Cos1000(i, Len(comp)) + FINE * (COMPONENT_SPACING \div 2),
          50 * (i + 1) * Sin1000(i, Len(comp)) + FINE * (COMPONENT_SPACING \div 2)>>

\* lines 796-811 in thousandths
FinePlacement(comps, v) ==
    LET per_row  == ISqrtCeil(Len(comps))
        comp_idx == CompOf(comps, v) - 1
        row      == comp_idx \div per_row
        col      == comp_idx % per_row
        center_x == col * COMPONENT_SPACING + COMPONENT_SPACING \div 2
        center_y == row * COMPONENT_SPACING + COMPONENT_SPACING \div 2
        comp     == comps[comp_idx + 1]
        i        == IndexIn(comp, v) - 1
    IN  <<150 * Cos1000(i, Len(comp)) + FINE * center_x,
          150 * Sin1000(i, Len(comp)) + FINE * center_y>>

\* lines 814-815: (cos, sin)(index * 0.1) * 2.0
FineSeed(v) ==
    CASE v = 0 -> <<2000, 0>>
      [] v = 1 -> <<1990, 200>>
      [] v = 2 -> <<1960, 397>>
      [] OTHER -> <<1911, 591>>

\* a reset that leaves the nodes where they are
reset_positions_stale(comps, pos) == pos

reset_positions(comps, pos) ==
    [v \in (DOMAIN pos) \cup CompNodes(comps) |->
        IF v \in CompNodes(comps) THEN Placement(comps, v) ELSE pos[v]]

\* reset_layout without the seeding of lines 814-816
reset_velocities_unseeded(comps, vel) == vel

reset_velocities(comps, vel) ==
    [v \in (DOMAIN vel) \cup CompNodes(comps) |->
        IF v \in CompNodes(comps) THEN SeedVelocity(v) ELSE vel[v]]

\* the state reset_layout leaves, and whether its fit_to_view panicked
ResetLayout(next_pc) ==
    /\ Free(graph_lock) /\ Free(positions_lock)
    /\ \E comps \in {find_components(graph_nodes, graph_edges)} :
         \E pos \in {reset_positions(comps, positions)} :
            /\ simulation_start_time' = NoTime
            /\ frame_count' = 0
            /\ components' = comps
            /\ positions' = pos
            /\ velocities' = reset_velocities(comps, velocities)
            /\ fine_positions' = [v \in DOMAIN pos |->
                                    IF v \in CompNodes(comps)
                                    THEN FinePlacement(comps, v)
                                    ELSE <<FINE * pos[v][1], FINE * pos[v][2]>>]
            /\ fine_velocities' = [v \in DOMAIN velocities' |->
                                     IF v \in CompNodes(comps) THEN FineSeed(v)
                                     ELSE <<FINE * velocities[v][1],
                                            FINE * velocities[v][2]>>]
            /\ running_simulation' = TRUE
            /\ FitToView(pos)
            /\ pc_ui' = IF fit_to_view_panics(pos, selected_nodes, WindowW, WindowH)
                        THEN "panicked" ELSE next_pc

(***************************************************************************)
(* update_layout, lines 825-991.  raw gives, for every node of a           *)
(* component, the velocity of line 959, (velocity - avg + force) * DAMPING.*)
(***************************************************************************)
FRAME_RAMP == 100           \* frame_factor reaches 1.0 at this frame count
TIME_FACTOR_MAX == 3        \* time_factor = min(elapsed / 2 s, 3.0)

\* the velocity update without the limit of lines 962-964
ClampVelocity_unlimited(v) == v

\* lines 962-964
ClampVelocity(v) ==
    IF Len2(v) > MAX_VELOCITY * MAX_VELOCITY
    THEN <<SDiv(v[1] * MAX_VELOCITY, ISqrt(Len2(v))),
           SDiv(v[2] * MAX_VELOCITY, ISqrt(Len2(v)))>>
    ELSE v

\* the test of lines 894-898 with a strict comparison
edge_weight_valid_strict(es, n1, n2) ==
    \/ ~weighted
    \/ es[find_edge(es, n1, n2)].w > min_weight

\* lines 894-898
edge_weight_valid(es, n1, n2) ==
    \/ ~weighted
    \/ es[find_edge(es, n1, n2)].w >= min_weight

\* lines 890-923: the edges whose spring force is computed
SpringEdges(comps, es, pos) ==
    { find_edge(es, pr[1], pr[2]) :
        pr \in { q \in CompNodes(comps) \X CompNodes(comps) :
                   /\ q[2] \in Range(neighbors(es, q[1]))
                   /\ q[2] \in Range(comps[CompOf(comps, q[1])])
                   /\ edge_weight_valid(es, q[1], q[2])
                   /\ q[1] \in DOMAIN pos /\ q[2] \in DOMAIN pos } }

\* an integration that does not skip the dragged node
Integrated_dragged_too(comps) == CompNodes(comps)

\* the nodes lines 947-973 integrate: every component node but the dragged one
Integrated(comps) == CompNodes(comps) \ {is_dragging}

step_velocities(comps, vel, raw) ==
    [v \in (DOMAIN vel) \cup Integrated(comps) |->
        IF v \in Integrated(comps) THEN ClampVelocity(raw[v]) ELSE vel[v]]

step_positions(comps, pos, vel) ==
    [v \in DOMAIN pos |->
        IF v \in Integrated(comps) THEN VAdd(pos[v], vel[v]) ELSE pos[v]]

\* max_movement squared, lines 927 and 971
MaxMovement2(comps, pos, vel) ==
    LET ls == { Len2(vel[v]) : v \in Integrated(comps) \cap DOMAIN pos }
    IN  IF ls = {} THEN 0 ELSE SetMax(ls)

\* the settle test against MIN_MOVEMENT alone, without the adaptive factor
Settles_base_threshold(mm2, fc, elapsed) ==
    mm2 < MIN_MOVEMENT * MIN_MOVEMENT

\* lines 977-986: max_movement < MIN_MOVEMENT * (1 + time_factor * frame_factor),
\* with elapsed in units of 2 s and both sides multiplied by 100 and squared
Settles(mm2, fc, elapsed) ==
    LET time_factor == Min(elapsed, TIME_FACTOR_MAX)
        frames      == Min(fc, FRAME_RAMP)
        bound       == MIN_MOVEMENT * (FRAME_RAMP + time_factor * frames)
    IN  FRAME_RAMP * FRAME_RAMP * mm2 < bound * bound

\* frame_count is a u64 read only through min(frame_count / 100, 1): the model
\* stops counting at FRAME_RAMP
NextFrameCount(fc) == IF fc < FRAME_RAMP THEN fc + 1 ELSE fc

Elapsed(t) == IF t = NoTime THEN 0 ELSE t

LayoutStep(raw) ==
    /\ \E vel \in {step_velocities(components, velocities, raw)} :
         /\ attracted' = SpringEdges(components, graph_edges, positions)
         /\ stepped' = TRUE
         /\ UNCHANGED fine
         /\ velocities' = vel
         /\ positions' = step_positions(components, positions, vel)
         /\ IF Settles(MaxMovement2(components, positions, vel),
                       NextFrameCount(frame_count), Elapsed(simulation_start_time))
            THEN /\ running_simulation' = FALSE
                 /\ simulation_start_time' = NoTime
                 /\ frame_count' = 0
            ELSE /\ running_simulation' = TRUE
                 /\ simulation_start_time' = Elapsed(simulation_start_time)
                 /\ frame_count' = NextFrameCount(frame_count)

\* lines 832-833: the step runs under the graph and positions locks
UpdateLayout(raw) ==
    /\ Free(graph_lock) /\ Free(positions_lock)
    /\ LayoutStep(raw)

(***************************************************************************)
(* update_layout computed from its forces, lines 836-974, in fixed point:  *)
(* coordinates, velocities and forces are integers in thousandths of a     *)
(* graph unit, divisions round toward zero.                                *)
(***************************************************************************)
ExactFrames == 40       \* frames the computed simulation is followed for
SPRING_LENGTH == 12500  \* 12.5 in thousandths
REPULSION_K == 100000

\* floor of the square root, by bisection between lo and hi
RECURSIVE SqrtIn(_, _, _)
SqrtIn(k, lo, hi) ==
    IF lo >= hi THEN lo
    ELSE LET mid == (lo + hi + 1) \div 2
         IN  IF mid * mid <= k THEN SqrtIn(k, mid, hi) ELSE SqrtIn(k, lo, mid - 1)

SQRT_MAX == 46340
Sqrt32(k) == SqrtIn(k, 0, SQRT_MAX)

\* Vec2::length of a vector in thousandths; a long vector is measured in hundredths
FineLength(v) ==
    IF Abs(v[1]) < 30 * FINE /\ Abs(v[2]) < 30 * FINE
    THEN Sqrt32(v[1] * v[1] + v[2] * v[2])
    ELSE 10 * Sqrt32(SDiv(v[1], 10) * SDiv(v[1], 10) + SDiv(v[2], 10) * SDiv(v[2], 10))

\* a * u / 1000 without the product a * u
MulMilli(a, u) ==
    Sign(a) * Sign(u) *
        ((Abs(a) \div FINE) * Abs(u) + ((Abs(a) % FINE) * Abs(u)) \div FINE)

\* Vec2::normalized in thousandths; the zero vector stays zero
Normalized(v) ==
    LET len == FineLength(v)
    IN  IF len = 0 THEN ZERO
        ELSE <<Sign(v[1]) * ((Abs(v[1]) * FINE) \div len),
               Sign(v[2]) * ((Abs(v[2]) * FINE) \div len)>>

Scaled(u, mag) == <<MulMilli(mag, u[1]), MulMilli(mag, u[2])>>

RECURSIVE SumOver(_, _)
SumOver(f, S) ==
    IF S = {} THEN ZERO
    ELSE LET x == CHOOSE y \in S : TRUE
         IN  VAdd(f[x], SumOver(f, S \ {x}))

\* lines 842-843: (cos, sin)(index * pi * 0.1) * 0.1
RandomForce(v) ==
    CASE v = 0 -> <<100, 0>>
      [] v = 1 -> <<95, 31>>
      [] v = 2 -> <<81, 59>>
      [] OTHER -> <<59, 81>>

\* the center of all the nodes of the graph, whatever their component
calculate_graph_center(comp, pos) ==
    LET total == SumOver(pos, DOMAIN pos)
    IN  IF DOMAIN pos = {} THEN ZERO
        ELSE <<SDiv(total[1], Cardinality(DOMAIN pos)),
               SDiv(total[2], Cardinality(DOMAIN pos))>>

\* calculate_component_center, lines 993-1013
calculate_component_center(comp, pos) ==
    LET found == Range(comp) \cap DOMAIN pos
        total == SumOver(pos, found)
    IN  IF found = {} THEN ZERO
        ELSE <<SDiv(total[1], Cardinality(found)), SDiv(total[2], Cardinality(found))>>

\* lines 864-873: REPULSION_K / distance^2 along delta, doubled below SPRING_LENGTH
Repulsion(pos1, pos2) ==
    LET delta    == VSub(pos1, pos2)
        distance == Max(FineLength(delta), FINE)
        hundredths == distance \div 10
        strength == IF distance < SPRING_LENGTH THEN 2 ELSE 1
        mag      == (strength * REPULSION_K * 10000)
                        \div Max(1, (hundredths * hundredths) \div FINE)
    IN  Scaled(Normalized(delta), mag)

\* lines 879-883: to_center * 0.05 * (center_distance / 300)^2
Centering(center, pos) ==
    LET to_center  == VSub(center, pos)
        hundredths == FineLength(to_center) \div 10
        ppm        == (hundredths * hundredths) \div 18000
    IN  <<SDiv(SDiv(to_center[1], 10) * ppm, 100000),
          SDiv(SDiv(to_center[2], 10) * ppm, 100000)>>

\* lines 904-914: (distance - SPRING_LENGTH) * -spring_k along delta, with
\* spring_k = 0.05, doubled beyond twice SPRING_LENGTH
Spring(pos1, pos2) ==
    LET delta    == VSub(pos1, pos2)
        distance == Max(FineLength(delta), FINE)
        stretch  == distance - SPRING_LENGTH
        mag      == IF distance > 2 * SPRING_LENGTH THEN SDiv(stretch, 10)
                    ELSE SDiv(stretch, 20)
    IN  Scaled(Normalized(delta), 0 - mag)

\* lines 841-923: the force on node1 of the component comp
Force(comp, es, pos, dragging, node1) ==
    LET others  == (Range(comp) \ {node1}) \cap DOMAIN pos
        repel   == SumOver([n \in others |-> Repulsion(pos[node1], pos[n])], others)
        center  == Centering(calculate_component_center(comp, pos), pos[node1])
        nbrs    == neighbors(es, node1)
        pulled  == { i \in DOMAIN nbrs :
                       /\ nbrs[i] \in Range(comp)
                       /\ edge_weight_valid(es, node1, nbrs[i])
                       /\ nbrs[i] \in DOMAIN pos }
        spring  == SumOver([i \in pulled |-> Spring(pos[node1], pos[nbrs[i]])], pulled)
    IN  IF node1 = dragging \/ node1 \notin DOMAIN pos
        THEN RandomForce(node1)
        ELSE VAdd(VAdd(RandomForce(node1), VAdd(repel, center)), spring)

\* lines 930-944: the average velocity of the nodes of comp that are not dragged
AverageVelocity(comp, vel, dragging) ==
    LET counted == (Range(comp) \ {dragging}) \cap DOMAIN vel
        total   == SumOver(vel, counted)
    IN  IF counted = {} THEN ZERO
        ELSE <<SDiv(total[1], Cardinality(counted)), SDiv(total[2], Cardinality(counted))>>

\* lines 962-964
FineClamp(v) ==
    IF FineLength(v) > MAX_VELOCITY * FINE
    THEN <<Normalized(v)[1] * MAX_VELOCITY, Normalized(v)[2] * MAX_VELOCITY>>
    ELSE v

\* lines 952-964: (velocity - avg + force) * DAMPING, limited
NextVelocity(comp, es, pos, vel, dragging, v) ==
    LET old   == IF v \in DOMAIN vel THEN vel[v] ELSE ZERO
        sum   == VAdd(VSub(old, AverageVelocity(comp, vel, dragging)),
                      Force(comp, es, pos, dragging, v))
    IN  FineClamp(<<SDiv(8 * sum[1], 10), SDiv(8 * sum[2], 10)>>)

exact_velocities(comps, es, pos, vel, dragging) ==
    [v \in (DOMAIN vel) \cup (CompNodes(comps) \ {dragging}) |->
        IF v \in CompNodes(comps) \ {dragging}
        THEN NextVelocity(comps[CompOf(comps, v)], es, pos, vel, dragging, v)
        ELSE vel[v]]

exact_positions(comps, pos, vel, dragging) ==
    [v \in DOMAIN pos |->
        IF v \in CompNodes(comps) \ {dragging} THEN VAdd(pos[v], vel[v]) ELSE pos[v]]

\* max_movement, lines 927 and 971, in thousandths
FineMaxMovement(comps, pos, vel, dragging) ==
    LET ls == { FineLength(vel[v]) : v \in (CompNodes(comps) \ {dragging}) \cap DOMAIN pos }
    IN  IF ls = {} THEN 0 ELSE SetMax(ls)

\* lines 977-986 on a max_movement in thousandths
FineSettles(mm, fc, elapsed) ==
    LET time_factor == Min(elapsed, TIME_FACTOR_MAX)
        frames      == Min(fc, FRAME_RAMP)
    IN  FRAME_RAMP * mm < FINE * MIN_MOVEMENT * (FRAME_RAMP + time_factor * frames)

\* a point in thousandths rounded to graph units
Coarse(p) == <<SDiv(p[1] + Sign(p[1]) * (FINE \div 2), FINE),
               SDiv(p[2] + Sign(p[2]) * (FINE \div 2), FINE)>>

\* update_layout on the positions and velocities in thousandths; the position
\* and velocity maps in graph units follow them
UpdateLayoutExact ==
    /\ Free(graph_lock) /\ Free(positions_lock)
    /\ frame_count < ExactFrames
    /\ \E vel \in {exact_velocities(components, graph_edges, fine_positions,
                                    fine_velocities, is_dragging)} :
         /\ attracted' = SpringEdges(components, graph_edges, positions)
         /\ stepped' = TRUE
         /\ fine_velocities' = vel
         /\ fine_positions' = exact_positions(components, fine_positions, vel, is_dragging)
         /\ velocities' = [v \in (DOMAIN velocities) \cup (DOMAIN vel) |->
                               IF v \in DOMAIN vel THEN Coarse(vel[v]) ELSE velocities[v]]
         /\ positions' = [v \in DOMAIN positions |->
                              IF v \in DOMAIN fine_positions
                              THEN Coarse(fine_positions'[v]) ELSE positions[v]]
         /\ IF FineSettles(FineMaxMovement(components, fine_positions, vel, is_dragging),
                           NextFrameCount(frame_count), Elapsed(simulation_start_time))
            THEN /\ running_simulation' = FALSE
                 /\ simulation_start_time' = NoTime
                 /\ frame_count' = 0
            ELSE /\ running_simulation' = TRUE
                 /\ simulation_start_time' = Elapsed(simulation_start_time)
                 /\ frame_count' = NextFrameCount(frame_count)

(***************************************************************************)
(* The UI thread: one frame of GraphVisualizerApp::update, phase by phase. *)
(***************************************************************************)
Toggle(mode) == IF mode = "Select" THEN "Pan" ELSE "Select"

\* lines 193-205: the keys H, Space and S
UiKeys(h, space, s) ==
    /\ pc_ui = "keys"
    /\ h => Free(positions_lock)
    /\ IF h THEN FitToView(positions) ELSE UNCHANGED view
    /\ IF h /\ fit_to_view_panics(positions, selected_nodes, WindowW, WindowH)
       THEN /\ pc_ui' = "panicked"
            /\ UNCHANGED <<running_simulation, interaction_mode>>
       ELSE /\ pc_ui' = "init"
            /\ running_simulation' = (running_simulation # space)
            /\ interaction_mode' = IF s THEN Toggle(interaction_mode)
                                   ELSE interaction_mode
    /\ UNCHANGED <<released, args, fine, ingest, shared, locks, sel, velocities, components,
                   simulation_start_time, frame_count, attracted, stepped, min_weight,
                   is_dragging, initialized, initial_layout_complete, pointer_drag,
                   drawn, slider_moved>>

\* lines 207-210: the check of the graph under its lock
UiInitCheck ==
    /\ pc_ui = "init"
    /\ ~initialized => Free(graph_lock)
    /\ pc_ui' = IF ~initialized /\ graph_nodes # <<>> THEN "reset" ELSE "sim"
    /\ UNCHANGED <<released, view, args, fine, ingest, shared, locks, sel, sim, app>>

\* lines 211-212
UiInitReset ==
    /\ pc_ui = "reset"
    /\ ResetLayout("sim")
    /\ initialized' = (pc_ui' # "panicked")
    /\ UNCHANGED <<released, args, ingest, graph_nodes, graph_edges, histogram, locks, sel,
                   attracted, stepped, min_weight, is_dragging, interaction_mode,
                   initial_layout_complete, pointer_drag, drawn, slider_moved>>

\* the viewport takes a wheel turn or an arrow key: the bounds of the model
ViewOpBound ==
    /\ view_ops < MaxViewOps
    /\ zoom_level[2] <= MaxDen
    /\ pan_offset[1][2] <= MaxDen /\ pan_offset[2][2] <= MaxDen

\* lines 227-239: every arrow key held down moves the pan offset by 10 / zoom_level

pan_keys(zoom, pan, arrows) ==
    LET pan_speed == FDiv(Whole(10), zoom)
        held(k, v) == IF k \in arrows THEN v ELSE Whole(0)
    IN  <<FSub(FAdd(pan[1], held("Right", pan_speed)), held("Left", pan_speed)),
          FSub(FAdd(pan[2], held("Down", pan_speed)), held("Up", pan_speed))>>

\* lines 216-239, with the step update_layout takes given as layout
SimPhase(layout, arrows) ==
    /\ pc_ui = "sim"
    /\ arrows # {} => ViewOpBound
    /\ view_ops' = IF arrows # {} THEN view_ops + 1 ELSE view_ops
    /\ IF running_simulation
       THEN /\ layout
            /\ IF ~running_simulation' /\ ~initial_layout_complete
               THEN \E fit \in {fit_to_view(positions', selected_nodes, WindowW, WindowH,
                                            zoom_level, pan_offset, min_zoom_level)} :
                    /\ zoom_level' = fit.zoom_level
                    /\ min_zoom_level' = fit.min_zoom_level
                    /\ IF fit_to_view_panics(positions', selected_nodes, WindowW, WindowH)
                       THEN /\ pc_ui' = "panicked"
                            /\ pan_offset' = fit.pan_offset
                            /\ UNCHANGED initial_layout_complete
                       ELSE /\ pc_ui' = "panel"
                            /\ pan_offset' = pan_keys(fit.zoom_level, fit.pan_offset, arrows)
                            /\ initial_layout_complete' = TRUE
               ELSE /\ pc_ui' = "panel"
                    /\ pan_offset' = pan_keys(zoom_level, pan_offset, arrows)
                    /\ UNCHANGED <<initial_layout_complete, zoom_level, min_zoom_level>>
       ELSE /\ pc_ui' = "panel"
            /\ attracted' = {}
            /\ stepped' = FALSE
            /\ pan_offset' = pan_keys(zoom_level, pan_offset, arrows)
            /\ UNCHANGED <<positions, velocities, running_simulation, zoom_level,
                           min_zoom_level, simulation_start_time, frame_count,
                           initial_layout_complete, fine>>
    /\ UNCHANGED <<released, args, ingest, graph_nodes, graph_edges, histogram, sel,
                   components, min_weight, is_dragging, initialized, interaction_mode,
                   pointer_drag, drawn, slider_moved>>

\* the phase as one step: no lock is held when it starts or when it ends
UiSimOf(layout, arrows) ==
    /\ SimPhase(layout, arrows)
    /\ UNCHANGED locks

\* the step has the velocities raw before the limit
UiSimKeys(raw, arrows) == UiSimOf(UpdateLayout(raw), arrows)

\* a frame in which no arrow key is down
UiSim(raw) == UiSimKeys(raw, {})

\* the step is computed from the forces, no arrow key is down
UiSimExact == UiSimOf(UpdateLayoutExact, {})

\* the wall clock advances by 2 s while a simulation start time is set
Tick ==
    /\ simulation_start_time # NoTime
    /\ simulation_start_time < TIME_FACTOR_MAX
    /\ simulation_start_time' = simulation_start_time + 1
    /\ UNCHANGED <<released, view, args, fine, ingest, shared, locks, pc_ui, sel, velocities,
                   running_simulation, components, frame_count, attracted,
                   stepped, app>>

(***************************************************************************)
(* lines 241-328: the controls panel.  The pointer clicks at most one      *)
(* widget in a frame.  The slider block locks the histogram (line 263) and *)
(* the label block locks the graph (line 317).                             *)
(***************************************************************************)
PanelGuard ==
    /\ pc_ui = "panel"
    /\ weighted => Free(hist_lock)
    /\ Free(graph_lock)

\* a widget of the panel is clicked by a pointer that drags nothing
PanelClick ==
    /\ PanelGuard
    /\ ~pointer_drag

UiPanelNone ==
    /\ PanelGuard
    /\ pc_ui' = "pointer"
    /\ slider_moved' = FALSE
    /\ UNCHANGED <<released, view, args, fine, ingest, shared, locks, sel, sim, min_weight, is_dragging,
                   initialized, interaction_mode, initial_layout_complete,
                   pointer_drag, drawn>>

\* lines 243-252
UiPanelPause ==
    /\ PanelClick
    /\ running_simulation' = ~running_simulation
    /\ pc_ui' = "pointer"
    /\ slider_moved' = FALSE
    /\ UNCHANGED <<released, view, args, fine, ingest, shared, locks, sel, velocities, components,
                   simulation_start_time, frame_count, attracted, stepped, min_weight,
                   is_dragging, initialized, interaction_mode,
                   initial_layout_complete, pointer_drag, drawn>>

\* lines 253-255
UiPanelReset ==
    /\ PanelClick
    /\ ResetLayout("pointer")
    /\ slider_moved' = FALSE
    /\ UNCHANGED <<released, args, ingest, graph_nodes, graph_edges, histogram, locks, sel,
                   attracted, stepped, min_weight, is_dragging, initialized, interaction_mode,
                   initial_layout_complete, pointer_drag, drawn>>

\* lines 256-258
UiPanelFit ==
    /\ PanelClick
    /\ Free(positions_lock)
    /\ FitToView(positions)
    /\ pc_ui' = IF fit_to_view_panics(positions, selected_nodes, WindowW, WindowH)
                THEN "panicked" ELSE "pointer"
    /\ slider_moved' = FALSE
    /\ UNCHANGED <<released, args, fine, ingest, shared, locks, sel, sim, min_weight, is_dragging,
                   initialized, interaction_mode, initial_layout_complete,
                   pointer_drag, drawn>>

\* lines 260-280: the slider shows min while min_weight is -infinity
SliderValue == IF min_weight = NEG_INFINITY THEN histogram.min ELSE min_weight

UiPanelSlider(value) ==
    /\ PanelClick
    /\ weighted
    /\ histogram.min <= value /\ value <= histogram.max
    /\ value # SliderValue
    /\ min_weight' = value
    /\ pc_ui' = "pointer"
    /\ slider_moved' = TRUE
    /\ UNCHANGED <<released, view, args, fine, ingest, shared, locks, sel, sim, is_dragging, initialized,
                   interaction_mode, initial_layout_complete, pointer_drag, drawn>>

\* lines 283-295
UiPanelMode ==
    /\ PanelClick
    /\ interaction_mode' = Toggle(interaction_mode)
    /\ pc_ui' = "pointer"
    /\ slider_moved' = FALSE
    /\ UNCHANGED <<released, view, args, fine, ingest, shared, locks, sel, sim, min_weight, is_dragging,
                   initialized, initial_layout_complete, pointer_drag, drawn>>

(***************************************************************************)
(* lines 330-503: the central panel.  egui reports of its response, in a   *)
(* frame, dragged() while a drag is under way, drag_stopped() in the frame *)
(* of the release, clicked() for a press released without a drag.          *)
(***************************************************************************)
PointerEvents == IF pointer_drag THEN {"dragged", "drag_stopped"}
                 ELSE {"none", "clicked", "dragged"}

PointerGuard(ev) ==
    /\ pc_ui = "pointer"
    /\ ev \in PointerEvents
    /\ pointer_drag' = (ev = "dragged")
    /\ pc_ui' = "draw"

\* update_preview_selection, lines 661-680, over the rectangle start-end
preview_selection(pos, start, end) ==
    { n \in DOMAIN pos : InRect(pos[n], start, end) }

\* lines 350-359
UiSelectDrag(pos) ==
    /\ PointerGuard("dragged")
    /\ interaction_mode = "Select"
    /\ IF pos # NoPoint
       THEN /\ Free(positions_lock)
            /\ drag_start' = IF drag_start = NoPoint THEN pos ELSE drag_start
            /\ drag_end' = pos
            /\ preview_nodes' = preview_selection(positions, drag_start', pos)
       ELSE UNCHANGED <<drag_start, drag_end, preview_nodes>>
    /\ UNCHANGED <<released, view, args, fine, ingest, shared, locks, selected_nodes, sim, min_weight,
                   is_dragging, initialized, interaction_mode,
                   initial_layout_complete, drawn, slider_moved>>

\* lines 367-379: the click on the node idx
click_selection(selected, idx, ctrl, shift) ==
    IF ctrl THEN (IF idx \in selected THEN selected \ {idx} ELSE selected \cup {idx})
    ELSE IF shift THEN selected \cup {idx}
    ELSE {idx}

\* lines 360-388: the first node of the map's iteration within 15.0 of the click
UiSelectClick(pos, ctrl, shift) ==
    /\ PointerGuard("clicked")
    /\ interaction_mode = "Select"
    /\ IF pos # NoPoint
       THEN /\ Free(positions_lock)
            /\ LET hits == { n \in DOMAIN positions : Dist2(positions[n], pos) < 15 * 15 }
               IN  IF hits # {}
                   THEN \E idx \in hits :
                            selected_nodes' = click_selection(selected_nodes, idx, ctrl, shift)
                   ELSE selected_nodes' = IF ~ctrl /\ ~shift THEN {} ELSE selected_nodes
       ELSE UNCHANGED selected_nodes
    /\ UNCHANGED <<released, view, args, fine, ingest, shared, locks, preview_nodes, drag_start, drag_end,
                   sim, min_weight, is_dragging, initialized, interaction_mode,
                   initial_layout_complete, drawn, slider_moved>>

\* lines 395-403: the loop over the preview nodes
RECURSIVE commit_loop(_, _, _)
commit_loop(selected, preview, ctrl) ==
    IF preview = {} THEN selected
    ELSE LET node_idx == CHOOSE n \in preview : TRUE
         IN  commit_loop(IF ctrl
                         THEN (IF node_idx \in selected THEN selected \ {node_idx}
                               ELSE selected \cup {node_idx})
                         ELSE selected \cup {node_idx},
                         preview \ {node_idx}, ctrl)

\* the release without the clear of lines 391-393
lasso_commit_keep(selected, preview, ctrl, shift) ==
    commit_loop(selected, preview, ctrl)

\* lines 391-403: the selection after the release
lasso_commit(selected, preview, ctrl, shift) ==
    commit_loop(IF ~ctrl /\ ~shift THEN {} ELSE selected, preview, ctrl)

\* lines 389-408
UiSelectRelease(ctrl, shift) ==
    /\ PointerGuard("drag_stopped")
    /\ interaction_mode = "Select"
    /\ selected_nodes' = lasso_commit(selected_nodes, preview_nodes, ctrl, shift)
    /\ preview_nodes' = {}
    /\ drag_start' = NoPoint
    /\ drag_end' = NoPoint
    /\ released' = <<ctrl, shift, selected_nodes, preview_nodes>>
    /\ UNCHANGED <<view, args, fine, ingest, shared, locks, sim, min_weight, is_dragging,
                   initialized, interaction_mode, initial_layout_complete, drawn,
                   slider_moved>>

\* Select mode, no event of the response
UiSelectIdle ==
    /\ PointerGuard("none")
    /\ interaction_mode = "Select"
    /\ UNCHANGED <<released, view, args, fine, ingest, shared, locks, sel, sim, min_weight, is_dragging,
                   initialized, interaction_mode, initial_layout_complete, drawn,
                   slider_moved>>

\* lines 472-489: the dragged node follows the pointer
drag_positions(pos_map, selected, node_idx, pos) ==
    IF node_idx \in selected
    THEN [n \in DOMAIN pos_map |->
            IF n \in selected THEN VAdd(pos_map[n], VSub(pos, pos_map[node_idx]))
            ELSE pos_map[n]]
    ELSE Put(pos_map, node_idx, pos)

drag_velocities(vel, selected, node_idx) ==
    IF node_idx \in selected
    THEN [n \in (DOMAIN vel) \cup selected |-> IF n \in selected THEN ZERO ELSE vel[n]]
    ELSE Put(vel, node_idx, ZERO)

\* lines 467-499; radius is NODE_RADIUS / zoom_level
UiPanDrag(pos, radius) ==
    /\ PointerGuard("dragged")
    /\ interaction_mode = "Pan"
    /\ IF pos = NoPoint
       THEN UNCHANGED <<positions, velocities, is_dragging>>
       ELSE /\ Free(positions_lock)
            /\ IF is_dragging # NoNode
               THEN /\ positions' = drag_positions(positions, selected_nodes, is_dragging, pos)
                    /\ velocities' = drag_velocities(velocities, selected_nodes, is_dragging)
                    /\ UNCHANGED is_dragging
               ELSE /\ LET hits == { n \in DOMAIN positions :
                                       Dist2(positions[n], pos) < radius * radius }
                       IN  IF hits # {}
                           THEN \E idx \in hits : is_dragging' = idx
                           ELSE UNCHANGED is_dragging
                    /\ UNCHANGED <<positions, velocities>>
    /\ UNCHANGED <<released, view, args, fine, ingest, graph_nodes, graph_edges, histogram, locks, sel,
                   running_simulation, components, simulation_start_time, frame_count,
                   attracted, stepped, min_weight, initialized, interaction_mode,
                   initial_layout_complete, drawn, slider_moved>>

\* lines 500-502: Pan mode and the response is not dragged
UiPanIdle(ev) ==
    /\ PointerGuard(ev)
    /\ ev # "dragged"
    /\ interaction_mode = "Pan"
    /\ is_dragging' = NoNode
    /\ UNCHANGED <<released, view, args, fine, ingest, shared, locks, sel, sim, min_weight, initialized,
                   interaction_mode, initial_layout_complete, drawn, slider_moved>>

\* lines 335-340, in a frame whose response has no click and no drag: the
\* wheel turns by scroll_delta while the pointer hovers at hover_pos
UiScroll(scroll_delta, hover_pos) ==
    /\ pc_ui = "pointer"
    /\ "none" \in PointerEvents
    /\ scroll_delta # 0
    /\ ViewOpBound
    /\ view_ops' = view_ops + 1
    /\ pointer_drag' = FALSE
    /\ \E zoomed \in {handle_zoom(scroll_delta, hover_pos, zoom_level, pan_offset,
                                   min_zoom_level)} :
        /\ zoom_level' = zoomed.zoom_level
        /\ pan_offset' = zoomed.pan_offset
        /\ pc_ui' = IF zoomed.panics THEN "panicked" ELSE "draw"
        /\ is_dragging' = IF interaction_mode = "Pan" /\ ~zoomed.panics
                          THEN NoNode ELSE is_dragging
    /\ UNCHANGED <<released, min_zoom_level, args, fine, ingest, shared, locks, sel, sim,
                   min_weight, initialized, interaction_mode, initial_layout_complete,
                   drawn, slider_moved>>

(***************************************************************************)
(* lines 520-656: the draw, under the graph and positions locks.           *)
(***************************************************************************)
\* lines 526-550
DrawnEdges(es, pos) ==
    { i \in DOMAIN es :
        /\ ~(weighted /\ es[i].w <= min_weight)
        /\ es[i].a \in DOMAIN pos /\ es[i].b \in DOMAIN pos }

UiDraw ==
    /\ pc_ui = "draw"
    /\ Free(graph_lock) /\ Free(positions_lock)
    /\ drawn' = DrawnEdges(graph_edges, positions)
    /\ released' = NoRelease
    /\ pc_ui' = "keys"
    /\ UNCHANGED <<view, args, fine, ingest, shared, locks, sel, sim, min_weight, is_dragging,
                   initialized, interaction_mode, initial_layout_complete,
                   pointer_drag, slider_moved>>

(***************************************************************************)
(* Initial states and specifications.                                      *)
(***************************************************************************)
InitWith(W, I) ==
    /\ weighted \in W
    /\ zoom_level = Whole(1)
    /\ pan_offset = <<Whole(0), Whole(0)>>
    /\ min_zoom_level = Frac(1, 2)
    /\ view_ops = 0
    /\ fine_positions = <<>>
    /\ fine_velocities = <<>>
    /\ input \in I
    /\ pc_in = "read"
    /\ unique_nodes = {}
    /\ edges = <<>>
    /\ loc_min = F64_INFINITY
    /\ loc_max = NEG_INFINITY
    /\ node_indices = <<>>
    /\ graph_nodes = <<>>
    /\ graph_edges = <<>>
    /\ positions = <<>>
    /\ histogram = [min |-> 0, max |-> 0]
    /\ graph_lock = "free"
    /\ positions_lock = "free"
    /\ hist_lock = "free"
    /\ pc_ui = "keys"
    /\ min_weight = NEG_INFINITY
    /\ velocities = <<>>
    /\ is_dragging = NoNode
    /\ running_simulation = TRUE
    /\ components = <<>>
    /\ initialized = FALSE
    /\ interaction_mode = "Pan"
    /\ selected_nodes = {}
    /\ preview_nodes = {}
    /\ drag_start = NoPoint
    /\ drag_end = NoPoint
    /\ initial_layout_complete = FALSE
    /\ simulation_start_time = NoTime
    /\ frame_count = 0
    /\ pointer_drag = FALSE
    /\ attracted = {}
    /\ stepped = FALSE
    /\ drawn = {}
    /\ slider_moved = FALSE
    /\ released = NoRelease

\* the velocities before the clamp: a layout at rest, and one that swings
\* about the points reset_layout placed its nodes at
RawSpeed == 50

StillRaw == [v \in CompNodes(components) |-> ZERO]

SwingRaw ==
    [v \in CompNodes(components) |->
        IF positions[v][1] >= Placement(components, v)[1]
        THEN <<0 - RawSpeed, 0>> ELSE <<RawSpeed, 0>>]

\* a frame in which the user does nothing
QuietFrame ==
    \/ UiKeys(FALSE, FALSE, FALSE)
    \/ UiInitCheck
    \/ UiInitReset
    \/ UiSim(StillRaw)
    \/ (frame_count < MaxFrames /\ UiSim(SwingRaw))
    \/ UiPanelNone
    \/ UiPanIdle("none")
    \/ UiDraw

(* Ingestion of every input against frames with the Reset Layout button. *)
Init ==
    \/ InitWith({FALSE}, SeqsUpTo(RowPoolU, MaxRows))
    \/ InitWith({TRUE}, SeqsUpTo(RowPoolW, MaxRows))

Next ==
    \/ Ingest
    \/ QuietFrame
    \/ UiPanelReset
    \/ Tick

Spec == Init /\ [][Next]_vars

(* Selection: one input, the lasso and the click in Select mode, the mode
   toggles at any point of a gesture; no node is moved by the pointer. *)
PointerPts == { <<100, 250>>, <<400, 250>>, <<1000, 1000>> }
FarPoint == <<1000, 1000>>

InitSelect == InitWith({FALSE}, { << <<"a", "b">>, <<"c">> >> })

SelectGesture ==
    \/ \E pos \in PointerPts \cup {NoPoint} : UiSelectDrag(pos)
    \/ \E pos \in PointerPts \cup {NoPoint}, ctrl, shift \in BOOLEAN :
           UiSelectClick(pos, ctrl, shift)
    \/ \E ctrl, shift \in BOOLEAN : UiSelectRelease(ctrl, shift)
    \/ UiSelectIdle

NextSelect ==
    \/ Ingest
    \/ \E s \in BOOLEAN : UiKeys(FALSE, FALSE, s)
    \/ UiInitCheck
    \/ UiInitReset
    \/ UiSim(StillRaw)
    \/ UiPanelNone
    \/ UiPanelMode
    \/ SelectGesture
    \/ \E pos \in {FarPoint, NoPoint} : UiPanDrag(pos, NODE_RADIUS)
    \/ \E ev \in {"none", "clicked", "drag_stopped"} : UiPanIdle(ev)
    \/ UiDraw

SpecSelect == InitSelect /\ [][NextSelect]_vars

(* Dragging: the same input; nodes are picked up and moved in Pan mode, alone
   or with the selection that clicks in Select mode build, while the
   simulation runs and the layout is reset. *)
DragPts == { <<100, 250>>, <<400, 250>>, <<430, 280>> }

NextDrag ==
    \/ Ingest
    \/ \E s \in BOOLEAN : UiKeys(FALSE, FALSE, s)
    \/ UiInitCheck
    \/ UiInitReset
    \/ UiSim(StillRaw)
    \/ (frame_count < MaxFrames /\ UiSim(SwingRaw))
    \/ UiPanelNone
    \/ UiPanelReset
    \/ \E pos \in DragPts, shift \in BOOLEAN : UiSelectClick(pos, FALSE, shift)
    \/ UiSelectIdle
    \/ \E pos \in DragPts : UiPanDrag(pos, NODE_RADIUS)
    \/ \E ev \in {"none", "drag_stopped"} : UiPanIdle(ev)
    \/ UiDraw

SpecDrag == InitSelect /\ [][NextDrag]_vars

(* Settling: frames without user input follow one another, the forces being
   any of the two layouts frame by frame, while the thread is scheduled and
   the clock advances. *)
InitLive ==
    InitWith({FALSE}, { << <<"c">> >>, << <<"a", "b">> >>,
                        << <<"a", "b">>, <<"b", "c">> >> })

LiveFrame ==
    \/ UiKeys(FALSE, FALSE, FALSE)
    \/ UiInitCheck
    \/ UiInitReset
    \/ \E raw \in {StillRaw, SwingRaw} : UiSim(raw)
    \/ UiPanelNone
    \/ UiPanIdle("none")
    \/ UiDraw

NextLive ==
    \/ Ingest
    \/ LiveFrame
    \/ Tick

SpecLive ==
    /\ InitLive
    /\ [][NextLive]_vars
    /\ WF_vars(Ingest)
    /\ WF_vars(LiveFrame)
    /\ WF_vars(Tick)

(* The weight filter: the edges a-b (1.0), b-c (5.0), a-c (1.0), weighted,
   and the same triangle unweighted; the slider is moved to any value between
   frames that simulate and draw. *)
InitFilter ==
    \/ InitWith({TRUE}, { << <<"a", "b", "1.0">>, <<"b", "c", "5.0">>,
                             <<"a", "c", "1.0">> >> })
    \/ InitWith({FALSE}, { << <<"a", "b", "c">> >> })

NextFilter ==
    \/ Ingest
    \/ QuietFrame
    \/ UiPanelReset
    \/ \E value \in histogram.min .. histogram.max : UiPanelSlider(value)

SpecFilter == InitFilter /\ [][NextFilter]_vars

(* The viewport: fits of the graph and of a selection, wheel turns, arrow keys. *)
InitView ==
    InitWith({FALSE}, { << <<"c">> >>, << <<"a", "b">> >> })

\* pointer positions of a click, in graph space
ViewPts == { <<100, 250>>, <<400, 250>> }
\* pointer positions of a wheel turn, in screen space
HoverPts == { <<512, 300>>, <<100, 40>> }

ViewArrows == { {}, {"Right", "Up"}, {"Left"}, {"Down"} }

NextView ==
    \/ Ingest
    \/ \E h, s \in BOOLEAN : UiKeys(h, FALSE, s)
    \/ UiInitCheck
    \/ UiInitReset
    \/ \E arrows \in ViewArrows : UiSimKeys(StillRaw, arrows)
    \/ UiPanelNone
    \/ UiPanelFit
    \/ UiPanelReset
    \/ \E pos \in ViewPts, shift \in BOOLEAN : UiSelectClick(pos, FALSE, shift)
    \/ UiSelectIdle
    \/ UiPanIdle("none")
    \/ \E scroll_delta \in {0 - 1, 1}, hover_pos \in HoverPts :
           UiScroll(scroll_delta, hover_pos)
    \/ UiDraw

SpecView == InitView /\ [][NextView]_vars

(* The simulation computed from its forces, from reset_layout until it settles. *)
InitForce ==
    InitWith({FALSE}, { << <<"a", "b">> >>, << <<"a", "b">>, <<"c">> >> })

NextForce ==
    \/ Ingest
    \/ UiKeys(FALSE, FALSE, FALSE)
    \/ UiInitCheck
    \/ UiInitReset
    \/ UiSimExact
    \/ UiPanelNone
    \/ UiPanelReset
    \/ UiPanIdle("none")
    \/ UiDraw
    \/ Tick

SpecForce == InitForce /\ [][NextForce]_vars

(***************************************************************************)
(* The placement of reset_layout on graphs of one to three components and  *)
(* of components of two, three and four nodes.                             *)
(***************************************************************************)
InitPlace ==
    InitWith({FALSE},
             { << <<"a">>, <<"b">>, <<"c">> >>,
               << <<"a", "b">>, <<"c", "d">> >>,
               << <<"a", "b">>, <<"b", "c">> >>,
               << <<"a", "b">>, <<"b", "c">>, <<"c", "d">>, <<"d", "a">> >>,
               << <<"a", "b">>, <<"c">>, <<"d">> >> })

SpecPlace == InitPlace /\ [][NextForce]_vars

(***************************************************************************)
(* The wheel: the graph a-b is laid out, its nodes are selected and fitted *)
(* with the H key, and the wheel is turned over two points of the window.  *)
(***************************************************************************)
InitZoom == InitWith({FALSE}, { << <<"a", "b">> >> })

NextZoom ==
    \/ Ingest
    \/ \E h, s \in BOOLEAN : UiKeys(h, FALSE, s)
    \/ UiInitCheck
    \/ UiInitReset
    \/ UiSim(StillRaw)
    \/ UiPanelNone
    \/ \E pos \in ViewPts, shift \in BOOLEAN : UiSelectClick(pos, FALSE, shift)
    \/ UiSelectIdle
    \/ UiPanIdle("none")
    \/ \E scroll_delta \in {0 - 1, 1}, hover_pos \in HoverPts :
           UiScroll(scroll_delta, hover_pos)
    \/ UiDraw

SpecZoom == InitZoom /\ [][NextZoom]_vars

(***************************************************************************)
(* The hit test of a drag: a node of the graph a-b is dragged next to the  *)
(* other one, released, and the pointer is pressed again.  HitRadius is    *)
(* within NODE_RADIUS / zoom_level for the zoom levels of these runs, 1    *)
(* and 256/105.                                                            *)
(***************************************************************************)
HitPts == { <<400, 250>>, <<103, 250>> }
HitRadius == 4

NextHit ==
    \/ Ingest
    \/ \E s \in BOOLEAN : UiKeys(FALSE, FALSE, s)
    \/ UiInitCheck
    \/ UiInitReset
    \/ UiSim(StillRaw)
    \/ UiPanelNone
    \/ UiSelectIdle
    \/ \E pos \in HitPts : UiPanDrag(pos, HitRadius)
    \/ \E ev \in {"none", "drag_stopped"} : UiPanIdle(ev)
    \/ UiDraw

SpecHit == InitZoom /\ [][NextHit]_vars

(* The same drags, with the mode toggled by the S key while the pointer is
   held down: the drag then goes on and is released in Select mode. *)
NextOverride ==
    \/ NextHit
    \/ \E pos \in HitPts : UiSelectDrag(pos)
    \/ UiSelectRelease(FALSE, FALSE)

SpecOverride == InitZoom /\ [][NextOverride]_vars

(***************************************************************************)
(* The scheduler: the simulation is paused and resumed with the Space key  *)
(* and the Pause button and reset with the Reset Layout button, while the  *)
(* clock advances.                                                         *)
(***************************************************************************)
InitSched == InitWith({FALSE}, { << <<"a", "b">> >>, << <<"a", "b">>, <<"c">> >> })

NextSched ==
    \/ Ingest
    \/ \E space \in BOOLEAN : UiKeys(FALSE, space, FALSE)
    \/ UiInitCheck
    \/ UiInitReset
    \/ UiSim(StillRaw)
    \/ (frame_count < MaxFrames /\ UiSim(SwingRaw))
    \/ UiPanelNone
    \/ UiPanelPause
    \/ UiPanelReset
    \/ UiPanIdle("none")
    \/ UiDraw
    \/ Tick

SpecSched == InitSched /\ [][NextSched]_vars

(***************************************************************************)
(* The mutexes, one acquisition at a time.  update_layout (lines 832-833)  *)
(* and the draw (lines 522-523) are the two places where the interface     *)
(* thread holds one guard while it takes another; every other place takes  *)
(* one lock alone and drops it before the next, and stays one step.        *)
(***************************************************************************)
\* the reverse order of lines 832-833 and 522-523
lock_order_reversed == <<"positions", "graph">>

\* lines 832-833 and 522-523: graph_data is locked first, node_positions next
lock_order == <<"graph", "positions">>

LockNamed(name) == IF name = "graph" THEN graph_lock ELSE positions_lock

\* the guards the interface thread holds
UiHeld == { name \in {"graph", "positions"} : LockNamed(name) = "ui" }

\* the phases of a frame that take both locks: update_layout and the draw
TwoLockPhase ==
    \/ pc_ui = "sim" /\ running_simulation
    \/ pc_ui = "draw"

\* line 832 or 833, line 522 or 523: the next guard of the pair is taken
UiLock ==
    /\ TwoLockPhase
    /\ Cardinality(UiHeld) < 2
    /\ \E name \in {lock_order[Cardinality(UiHeld) + 1]} :
         /\ Free(LockNamed(name))
         /\ graph_lock' = IF name = "graph" THEN "ui" ELSE graph_lock
         /\ positions_lock' = IF name = "positions" THEN "ui" ELSE positions_lock
    /\ UNCHANGED <<released, view, args, fine, ingest, shared, hist_lock, pc_ui, sel, sim, app>>

\* lines 834-991 and 216-224: the step under both guards, which drop as
\* update_layout returns
UiSimLocked(raw) ==
    /\ UiHeld = {"graph", "positions"}
    /\ SimPhase(LayoutStep(raw), {})
    /\ graph_lock' = "free"
    /\ positions_lock' = "free"
    /\ UNCHANGED hist_lock

\* lines 524-656: the draw under both guards, which drop at the end of the frame
UiDrawLocked ==
    /\ pc_ui = "draw"
    /\ UiHeld = {"graph", "positions"}
    /\ drawn' = DrawnEdges(graph_edges, positions)
    /\ released' = NoRelease
    /\ pc_ui' = "keys"
    /\ graph_lock' = "free"
    /\ positions_lock' = "free"
    /\ UNCHANGED <<view, args, fine, ingest, shared, hist_lock, sel, sim, min_weight, is_dragging,
                   initialized, interaction_mode, initial_layout_complete,
                   pointer_drag, slider_moved>>

InitLocks ==
    \/ InitWith({FALSE}, { << <<"a", "b">> >> })
    \/ InitWith({TRUE}, { << <<"a", "b", "1.0">> >> })

NextLocks ==
    \/ Ingest
    \/ \E space \in BOOLEAN : UiKeys(FALSE, space, FALSE)
    \/ UiInitCheck
    \/ UiInitReset
    \/ (~running_simulation /\ UiSim(StillRaw))
    \/ UiLock
    \/ UiSimLocked(StillRaw)
    \/ UiPanelNone
    \/ UiPanelReset
    \/ UiPanIdle("none")
    \/ UiDrawLocked

SpecLocks == InitLocks /\ [][NextLocks]_vars

(***************************************************************************)
(* Properties.                                                             *)
(***************************************************************************)
\* the labels and the unordered pairs of labels the input names
InputLabels == UNION { RowNodes(input[i], weighted) : i \in DOMAIN input }

InputPairs ==
    UNION { { {e.n1, e.n2} : e \in Range(RowEdges(input[i], weighted)) } :
            i \in DOMAIN input }

GraphLabels == Range(graph_nodes)

GraphPairs ==
    { {graph_nodes[e.a + 1], graph_nodes[e.b + 1]} : e \in Range(graph_edges) }

GraphEmpty == graph_nodes = <<>> /\ graph_edges = <<>>

GraphComplete ==
    /\ GraphLabels = InputLabels
    /\ GraphPairs = InputPairs
    /\ DOMAIN positions = NodeIds

\* C1: whenever the UI thread can take the graph lock it finds the graph either
\* empty or holding every node and edge of the input with a position for every
\* node; the initialization check that saw a non-empty graph saw a complete one.
C1_NoPartialGraph ==
    /\ Free(graph_lock) => (GraphEmpty \/ GraphComplete)
    /\ pc_ui = "reset" => (~GraphEmpty /\ GraphComplete)

C1_Witness ==
    /\ pc_ui = "reset"
    /\ Len(graph_nodes) >= 3
    /\ Len(graph_edges) >= 2

\* the nodes a path of edges joins to a node of S
RECURSIVE Reach(_)
Reach(S) ==
    LET T == S \cup { e.b : e \in { f \in Range(graph_edges) : f.a \in S } }
                 \cup { e.a : e \in { f \in Range(graph_edges) : f.b \in S } }
    IN  IF T = S THEN S ELSE Reach(T)

ComponentsOf(v) == { c \in DOMAIN components : v \in Range(components[c]) }

IsPartition ==
    /\ \A c \in DOMAIN components :
         /\ components[c] # <<>>
         /\ Range(components[c]) \subseteq NodeIds
         /\ Cardinality(Range(components[c])) = Len(components[c])
    /\ \A v \in NodeIds : Cardinality(ComponentsOf(v)) = 1
    /\ \A u, v \in NodeIds : (ComponentsOf(u) = ComponentsOf(v)) <=> (v \in Reach({u}))

\* C2: after a layout reset the components partition the node set: every node
\* is in exactly one component, no component repeats or shares a node, and two
\* nodes share a component exactly when a path of edges joins them.
C2_ComponentsPartition == (initialized \/ components # <<>>) => IsPartition

\* a reset that put two nodes with no edge between them into one component
C2_Witness ==
    /\ initialized
    /\ \E c \in DOMAIN components : \E u, v \in Range(components[c]) :
          u # v /\ ~contains_edge(graph_edges, u, v)

\* C3: once the layout has been initialized, through simulation steps, drags
\* and resets, the position map and the velocity map each hold exactly one
\* entry per node of the graph and no other entry.
C3_MapsCoverNodes ==
    initialized => (DOMAIN positions = NodeIds /\ DOMAIN velocities = NodeIds)

\* a selected node that a group drag has moved off the point of its placement,
\* in an initialized layout of three nodes
C3_Witness ==
    /\ initialized
    /\ Len(graph_nodes) = 3
    /\ is_dragging # NoNode
    /\ \E n \in selected_nodes \ {is_dragging} :
          positions[n] # Placement(components, n) /\ velocities[n] = ZERO

\* the triples of the input in line order, and the weight the first triple
\* on an unordered pair of labels carries
InputTriples == ScanEdges(input, weighted)

FirstWeight(pair) ==
    LET first == CHOOSE i \in DOMAIN InputTriples :
                    /\ {InputTriples[i].n1, InputTriples[i].n2} = pair
                    /\ \A j \in 1 .. (i - 1) :
                          {InputTriples[j].n1, InputTriples[j].n2} # pair
    IN  InputTriples[first].w

EdgePair(e) == {graph_nodes[e.a + 1], graph_nodes[e.b + 1]}

\* C4: the graph never holds two edges on one unordered pair of nodes nor two
\* nodes with one label; an edge carries the weight of the first input triple
\* on its pair; and when ingestion is done every label and every pair of the
\* input is in the graph.
C4_EdgesDeduplicated ==
    /\ \A i, j \in DOMAIN graph_edges :
          i # j => {graph_edges[i].a, graph_edges[i].b} #
                   {graph_edges[j].a, graph_edges[j].b}
    /\ \A i, j \in DOMAIN graph_nodes : i # j => graph_nodes[i] # graph_nodes[j]
    /\ \A i \in DOMAIN graph_edges :
          graph_edges[i].w = FirstWeight(EdgePair(graph_edges[i]))
    /\ pc_in = "done" => (GraphLabels = InputLabels /\ GraphPairs = InputPairs)

\* the pair a, b named twice, the second time reversed and with another weight
C4_Witness ==
    /\ pc_in = "done"
    /\ weighted
    /\ input = << <<"a", "b", "1.0">>, <<"b", "a", "5.0">> >>
    /\ Len(graph_edges) = 1
    /\ graph_edges[1].w = 1

\* C5: while frames follow one another without user action and the clock
\* advances, a running simulation eventually settles, whatever the forces;
\* frames stop following one another only when update has panicked.
C5_EventuallySettles ==
    running_simulation ~> (~running_simulation \/ pc_ui = "panicked")

\* a layout that settled while a node still moved at MAX_VELOCITY
C5_Witness ==
    /\ initialized
    /\ ~running_simulation
    /\ \E v \in DOMAIN velocities :
          Len2(velocities[v]) = MAX_VELOCITY * MAX_VELOCITY

\* C6: after a lasso release in Select mode the selection is the preview set
\* when no modifier was held, the symmetric difference of the old selection
\* and the preview set when ctrl was held (with or without shift), and their
\* union when shift was held without ctrl.
C6_LassoCommit ==
    released # NoRelease =>
        LET ctrl    == released[1]
            shift   == released[2]
            before  == released[3]
            preview == released[4]
        IN  selected_nodes =
                IF ctrl THEN (before \ preview) \cup (preview \ before)
                ELSE IF shift THEN before \cup preview
                ELSE preview

\* the lasso over all three nodes repeated with ctrl on the selection it made
C6_Witness ==
    /\ released = <<TRUE, FALSE, {0, 1, 2}, {0, 1, 2}>>
    /\ selected_nodes = {}

\* C7 as stated: between frames, when no pointer drag is in progress, the
\* preview set is empty and drag_start and drag_end are unset.
C7_DragFinalized ==
    (pc_ui = "keys" /\ ~pointer_drag) =>
        (preview_nodes = {} /\ drag_start = NoPoint /\ drag_end = NoPoint)

\* the edges the threshold lets through: weight >= min_weight
AtOrAbove == { i \in DOMAIN graph_edges : graph_edges[i].w >= min_weight }

Below == { i \in DOMAIN graph_edges : graph_edges[i].w < min_weight }

\* C8: right after a simulation step of an initialized layout the edges whose
\* spring force was computed are, on a weighted graph, exactly those of weight
\* >= the threshold, and on an unweighted graph all edges.
C8_AttractionFilter ==
    (pc_ui = "panel" /\ stepped /\ initialized) =>
        attracted = IF weighted THEN AtOrAbove ELSE DOMAIN graph_edges

\* a threshold strictly between 1.0 and 5.0: only b-c, the second edge, attracts
C8_Witness ==
    /\ pc_ui = "panel" /\ stepped /\ initialized /\ weighted
    /\ min_weight > 1 /\ min_weight < 5
    /\ Len(graph_edges) = 3
    /\ attracted = {2}
    /\ {graph_nodes[graph_edges[2].a + 1], graph_nodes[graph_edges[2].b + 1]} = {"b", "c"}

\* C9 as stated: at the end of a frame that simulated and drew a weighted
\* graph under one threshold, the edges that attracted are the edges drawn.
C9_SharedFilter ==
    (pc_ui = "keys" /\ weighted /\ initialized /\ stepped /\ ~slider_moved) =>
        attracted = drawn

\* C10 as stated: at the end of a frame that simulated and drew a weighted
\* graph, an edge of weight below the threshold has neither attracted nor
\* been drawn in that frame.
C10_RemovedSameFrame ==
    (pc_ui = "keys" /\ weighted /\ initialized /\ stepped) =>
        (Below \cap (attracted \cup drawn) = {})

\* what holds instead: the same, for the frames in which the slider stood still
C10_RemovedWhenSteady ==
    (pc_ui = "keys" /\ weighted /\ initialized /\ stepped /\ ~slider_moved) =>
        (Below \cap (attracted \cup drawn) = {})


\* points in fractions, on and off the integer grid
RoundPts ==
    { <<Whole(0), Whole(0)>>, <<Whole(100), Whole(250)>>, <<Frac(0 - 10, 3), Frac(6, 7)>> }

\* C11: graph_to_screen_pos and screen_to_graph_pos are inverse of each other:
\* in every viewport state whose zoom is not zero, converting a point to the
\* screen and back, or to the graph and back, gives the point (exact arithmetic).
C11_RoundTrip ==
    zoom_level # Whole(0) =>
        \A p \in RoundPts :
            /\ screen_to_graph_pos(graph_to_screen_pos(p, zoom_level, pan_offset),
                                   zoom_level, pan_offset) = p
            /\ graph_to_screen_pos(screen_to_graph_pos(p, zoom_level, pan_offset),
                                   zoom_level, pan_offset) = p

\* a viewport that was fitted, zoomed and panned, where the conversion moves the point
C11_Witness ==
    /\ view_ops = MaxViewOps
    /\ min_zoom_level # Frac(1, 2)
    /\ zoom_level # Whole(0) /\ zoom_level # Whole(1) /\ zoom_level[2] > 1
    /\ pan_offset[1] # Whole(0) /\ pan_offset[2] # Whole(0)
    /\ \E p \in RoundPts :
        /\ graph_to_screen_pos(p, zoom_level, pan_offset) # p
        /\ screen_to_graph_pos(graph_to_screen_pos(p, zoom_level, pan_offset),
                               zoom_level, pan_offset) = p


\* window sizes: the one main opens and the smallest it allows
FitSizes == { <<WindowW, WindowH>>, <<400, 300>> }

FitOf(size, zoom, pan, min_zoom) ==
    fit_to_view(positions, selected_nodes, size[1], size[2], zoom, pan, min_zoom)

\* C12: fit_to_view is idempotent: from every position map, selection, window
\* size and prior viewport, a second fit_to_view that follows the first with
\* nothing changed in between leaves the zoom_level, pan_offset and
\* min_zoom_level the first one left (a fit that panics does so both times).
C12_FitIdempotent ==
    \A size \in FitSizes :
        \E once \in {FitOf(size, zoom_level, pan_offset, min_zoom_level)} :
            FitOf(size, once.zoom_level, once.pan_offset, once.min_zoom_level) = once

\* the Fit to View button has just fitted a selection into a viewport that wheel
\* turns or arrow keys had moved, and a second fit would change nothing
C12_Witness ==
    /\ pc_ui = "pointer"
    /\ selected_nodes # {}
    /\ view_ops > 0
    /\ zoom_level # Whole(1)
    /\ min_zoom_level # Frac(1, 2)
    /\ \E once \in {FitOf(<<WindowW, WindowH>>, zoom_level, pan_offset, min_zoom_level)} :
        /\ ~once.panics
        /\ once.zoom_level = zoom_level
        /\ once.pan_offset = pan_offset
        /\ once.min_zoom_level = min_zoom_level


\* C13: zoom bounds: after any sequence of wheel turns, fits of the full graph
\* and fits of a selection, min_zoom_level <= zoom_level <= 5.0 (in a UI thread
\* that has not panicked).
C13_ZoomBounds ==
    pc_ui # "panicked" =>
        /\ FLe(min_zoom_level, zoom_level)
        /\ FLe(zoom_level, ZOOM_MAX)


\* C14: no viewport operation is fatal: the UI thread never panics in
\* fit_to_view or handle_zoom, and the bounds of their clamp are always in
\* order and finite (min_zoom_level <= 5.0).
C14_NoViewportPanic ==
    /\ pc_ui # "panicked"
    /\ IsFinite(min_zoom_level)
    /\ FLe(min_zoom_level, ZOOM_MAX)


\* C16: the node being dragged is excluded from the simulation step: a run of
\* update_layout leaves its position and its velocity as they were, and the
\* simulation settles or not by the velocities of the other nodes alone.
C16_DraggedExcluded ==
    [][ (/\ pc_ui = "sim" /\ pc_ui' # "sim"
         /\ running_simulation
         /\ is_dragging \in CompNodes(components))
        => LET others == (CompNodes(components) \ {is_dragging}) \cap DOMAIN positions
               mm2    == IF others = {} THEN 0
                         ELSE SetMax({ Len2(velocities'[v]) : v \in others })
           IN  /\ positions'[is_dragging] = positions[is_dragging]
               /\ velocities'[is_dragging] = velocities[is_dragging]
               /\ running_simulation' =
                      ~Settles(mm2, NextFrameCount(frame_count),
                               Elapsed(simulation_start_time)) ]_vars

\* update_layout has just settled the simulation although the dragged node
\* carries a velocity at the limit, above every threshold of the first frames
C16_Witness ==
    /\ pc_ui = "panel" /\ stepped
    /\ ~running_simulation
    /\ is_dragging \in CompNodes(components)
    /\ Len2(velocities[is_dragging]) >= MAX_VELOCITY * MAX_VELOCITY


\* update_layout has just run on an initialized layout
JustStepped == pc_ui = "panel" /\ stepped /\ initialized

\* C15: drift cancellation: at the end of every simulation frame the mean of the
\* stored velocities of the non-dragged nodes of every component is the zero
\* vector (here: within five thousandths of a graph unit on each axis).
C15_DriftCancelled ==
    JustStepped =>
        \A c \in DOMAIN components :
            \E avg \in {AverageVelocity(components[c], fine_velocities, is_dragging)} :
                Abs(avg[1]) <= 5 /\ Abs(avg[2]) <= 5

\* the distance between the two nodes of a two-node graph, in thousandths
PairDistance == FineLength(VSub(fine_positions[0], fine_positions[1]))

TwoNodeGraph == Len(graph_nodes) = 2 /\ Len(graph_edges) = 1 /\ initialized

\* C17: a two-node, one-edge, unweighted graph started from the placement of
\* reset_layout settles with the two nodes at a distance within a small
\* tolerance (here: one half) of SPRING_LENGTH.
C17_SettlesAtSpringLength ==
    (TwoNodeGraph /\ JustStepped /\ ~running_simulation) =>
        Abs(PairDistance - SPRING_LENGTH) <= SPRING_LENGTH \div 2

\* the other half of C17: the simulation of the two-node graph settles within
\* eight frames of the reset
C17_SettlesInFrames == TwoNodeGraph => frame_count < 8


\* a step of reset_layout, from the first frame with a graph or from the button
ResetStep == UiInitReset \/ UiPanelReset

\* the nodes at pairwise different places; the circles of two components
\* (radius 150, centers 500 apart) keep their nodes at least 200 apart
PlacedApart(comps, pos, fpos) ==
    \A u, v \in CompNodes(comps) :
        u # v =>
            /\ pos[u] # pos[v]
            /\ fpos[u] # fpos[v]
            /\ CompOf(comps, u) # CompOf(comps, v) => Dist2(pos[u], pos[v]) >= 200 * 200

\* C18: after reset_layout no two distinct nodes have the same position: the
\* nodes of one component sit at distinct points of its circle and the
\* circles of distinct components lie in distinct grid cells and do not meet.
C18_NoCoincidentNodes ==
    [][ResetStep => PlacedApart(components', positions', fine_positions')]_vars

\* reset_layout has placed three components, two of them of one node, on two
\* rows of the grid
C18_Witness ==
    /\ initialized /\ pc_ui = "sim" /\ frame_count = 0 /\ running_simulation
    /\ positions = reset_positions(components, positions)
    /\ Len(components) = 3
    /\ \E c \in DOMAIN components : Len(components[c]) = 2

\* the distances, in thousandths, between the nodes of comp at the indices in
\* the set Pairs
PairDistances(comp, fpos, Pairs) ==
    { FineLength(VSub(fpos[comp[p[1]]], fpos[comp[p[2]]])) : p \in Pairs }

AllPairs(comp) == { p \in (DOMAIN comp) \X (DOMAIN comp) : p[1] < p[2] }
Neighbours(comp) == { p \in (DOMAIN comp) \X (DOMAIN comp) : p[2] = (p[1] % Len(comp)) + 1 }

\* equal up to the rounding of the cosine and sine tables (0.01 graph units)
NearlyEqual(S) == S = {} \/ SetMax(S) - SetMin(S) <= 10

\* C19 as stated: in every component of two or more nodes placed by
\* reset_layout the distances between all pairs of nodes are equal.
C19_AllPairsEqual ==
    [][ResetStep =>
        \A c \in DOMAIN components' :
            Len(components'[c]) >= 2 =>
                NearlyEqual(PairDistances(components'[c], fine_positions',
                                          AllPairs(components'[c])))]_vars

\* C19, amended: in every component of two or more nodes placed by
\* reset_layout the distances between nodes that are neighbours on the circle
\* are equal, and the distances between all pairs are equal when the
\* component has at most three nodes.
C19_NeighboursEqual ==
    [][ResetStep =>
        \A c \in DOMAIN components' :
            Len(components'[c]) >= 2 =>
                /\ NearlyEqual(PairDistances(components'[c], fine_positions',
                                             Neighbours(components'[c])))
                /\ Len(components'[c]) <= 3 =>
                       NearlyEqual(PairDistances(components'[c], fine_positions',
                                                 AllPairs(components'[c])))]_vars

\* reset_layout has placed a component of four nodes
C19_Witness ==
    /\ initialized /\ pc_ui = "sim" /\ frame_count = 0 /\ running_simulation
    /\ \E c \in DOMAIN components :
         /\ Len(components[c]) = 4
         /\ \A i \in DOMAIN components[c] :
              fine_positions[components[c][i]] = FinePlacement(components, components[c][i])


\* a weighted input with a line of fewer than three tokens or of a weight that
\* is no number
MalformedInput == weighted /\ \E i \in DOMAIN input : RowPanics(input[i])

\* C20: a malformed row of a weighted input is dropped without notice:
\* ingestion does not stop at it (the thread goes on to build the graph from
\* the other rows).
C20_MalformedRowDropped == MalformedInput => pc_in # "panicked"

\* what the code does instead: the thread stops at the scan, before it takes a
\* lock, so the graph stays empty and the layout is never initialized
C20_NothingIngested ==
    MalformedInput =>
        /\ pc_in \in {"read", "panicked"}
        /\ graph_nodes = <<>> /\ graph_edges = <<>>
        /\ ~initialized


\* a frame's simulation phase in which update_layout runs
RunningStep == pc_ui = "sim" /\ running_simulation /\ pc_ui' # "sim"

\* max_movement < MIN_MOVEMENT * (1 + min(elapsed / 2, 3) * min(frame_count / 100, 1))
\* on the velocities this step stored and the frame count it counted, both
\* sides multiplied by 100 and squared
BelowAdaptiveThreshold ==
    LET fc == frame_count + 1
        tf == IF Elapsed(simulation_start_time) < 3 THEN Elapsed(simulation_start_time) ELSE 3
        ff == IF fc < 100 THEN fc ELSE 100
        mm2 == MaxMovement2(components, positions, velocities')
    IN  100 * 100 * mm2 < (10 * (100 + tf * ff)) * (10 * (100 + tf * ff))

C22_ResetRestarts ==
    [][ResetStep =>
        /\ running_simulation' /\ frame_count' = 0 /\ simulation_start_time' = NoTime
        /\ components' = find_components(graph_nodes, graph_edges)
        /\ \A v \in NodeIds :
             /\ v \in CompNodes(components')
             /\ v \in DOMAIN positions' /\ positions'[v] = Placement(components', v)
             /\ v \in DOMAIN velocities' /\ velocities'[v] = SeedVelocity(v)]_vars

\* the Reset Layout button has restarted a layout that was not running in this
\* frame's simulation phase (settled or paused) and whose nodes had been moved
C22_Witness ==
    /\ pc_ui = "pointer" /\ initialized /\ ~stepped
    /\ running_simulation /\ frame_count = 0 /\ simulation_start_time = NoTime
    /\ NodeIds # {}
    /\ \A v \in NodeIds : positions[v] = Placement(components, v)
                          /\ velocities[v] = SeedVelocity(v)


\* C29: whenever the simulation is not running, settled or paused, frame_count
\* is 0 and the simulation start time is unset.
C29_StoppedIsCleared ==
    ~running_simulation => frame_count = 0 /\ simulation_start_time = NoTime

\* what holds instead: the counters are clear right after a step that settled
C29_SettledIsCleared ==
    (JustStepped /\ ~running_simulation) => frame_count = 0 /\ simulation_start_time = NoTime


\* the map f with the vector d added at every node outside the component comp
ShiftedOutside(f, comp, d) ==
    [v \in DOMAIN f |-> IF v \in Range(comp) THEN f[v] ELSE VAdd(f[v], d)]

\* displacements and velocity changes, in thousandths, of the other components
OutsideShifts == { << <<10000, 0>>, <<0 - 3000, 1000>> >>,
                   << <<0 - 20000, 5000>>, <<500, 0>> >> }

\* the position and velocity lines 946-973 give the nodes of comp
StepOf(comp, pos, vel) ==
    [v \in Range(comp) \ {is_dragging} |->
        CHOOSE r \in { <<VAdd(pos[v], nv), nv>> :
                         nv \in {NextVelocity(comp, graph_edges, pos, vel, is_dragging, v)} } :
            TRUE]

\* C23: forces never cross component boundaries: the position and velocity a
\* simulation step gives a node depend only on the positions and velocities
\* of the nodes of its own component; with the nodes of the other components
\* displaced and their velocities changed the step gives the same result.
C23_ForcesStayInComponent ==
    (pc_ui = "sim" /\ running_simulation /\ initialized
        /\ DOMAIN fine_positions = NodeIds) =>
        \A c \in DOMAIN components, d \in OutsideShifts :
            StepOf(components[c], ShiftedOutside(fine_positions, components[c], d[1]),
                   ShiftedOutside(fine_velocities, components[c], d[2]))
                = StepOf(components[c], fine_positions, fine_velocities)

\* a step has run on a graph of two components of two nodes each
C23_Witness ==
    /\ JustStepped /\ running_simulation /\ DOMAIN fine_positions = NodeIds
    /\ Len(components) = 2
    /\ \A c \in DOMAIN components : Len(components[c]) = 2


\* a node of the selection is the node dragged in Pan mode, the pointer
\* being held down since the last pointer phase
GroupDrag ==
    /\ interaction_mode = "Pan" /\ pointer_drag
    /\ is_dragging # NoNode /\ is_dragging \in selected_nodes

\* C24: while a node of the selection is dragged in Pan mode, the simulation
\* phase and the pointer phase of a frame both leave the offsets between the
\* selected nodes as they are (the selection moves as one body, also in a
\* frame in which the simulation runs).
C24_GroupMovesAsOne ==
    [][(GroupDrag /\ pc_ui \in {"sim", "pointer"} /\ is_dragging' = is_dragging) =>
        \A u, w \in selected_nodes \cap DOMAIN positions :
            VSub(positions'[u], positions'[w]) = VSub(positions[u], positions[w])]_vars

\* what holds: the pointer phase alone moves the selected nodes by one delta
\* and leaves them without velocity
C24_DragHandlerRigid ==
    [][(GroupDrag /\ pc_ui = "pointer" /\ is_dragging' = is_dragging
            /\ positions' # positions) =>
        /\ \A u, w \in selected_nodes \cap DOMAIN positions :
             VSub(positions'[u], positions'[w]) = VSub(positions[u], positions[w])
        /\ \A u \in selected_nodes : velocities'[u] = ZERO
        /\ \A u \in DOMAIN positions \ selected_nodes : positions'[u] = positions[u]]_vars


\* the wheel is turned by scroll_delta over hover_pos and handle_zoom returns
WheelTurn(scroll_delta, hover_pos) ==
    UiScroll(scroll_delta, hover_pos) /\ pc_ui' # "panicked"

\* the graph-space point under the screen point c
Under(c, zoom, pan) == screen_to_graph_pos(<<Whole(c[1]), Whole(c[2])>>, zoom, pan)

\* C25: scroll zoom keeps the point under the cursor fixed: after handle_zoom
\* the graph-space point under the cursor is the one that was there before,
\* clamped or not, and the zoom level is the old one times 1.1 (scroll up) or
\* 0.9 (otherwise), clamped to [min_zoom_level, 5.0].
C25_CursorPointFixed ==
    [][\A scroll_delta \in {0 - 1, 1}, hover_pos \in HoverPts :
          WheelTurn(scroll_delta, hover_pos) =>
            /\ Under(hover_pos, zoom_level', pan_offset')
                 = Under(hover_pos, zoom_level, pan_offset)
            /\ zoom_level' = FClamp(FMul(zoom_level,
                                         IF scroll_delta > 0 THEN Frac(11, 10)
                                         ELSE Frac(9, 10)),
                                    min_zoom_level, ZOOM_MAX)]_vars

\* a wheel turn has been clamped at min_zoom_level, with a pan offset that is
\* not the one of a fit
C25_Witness ==
    /\ pc_ui = "draw" /\ view_ops > 0 /\ initialized
    /\ zoom_level = min_zoom_level
    /\ pan_offset # fit_to_view(positions, selected_nodes, WindowW, WindowH,
                                zoom_level, pan_offset, min_zoom_level).pan_offset


\* a drag starts at pos: the pointer phase of lines 490-497 picks a node
DragStart(pos) ==
    UiPanDrag(pos, HitRadius) /\ is_dragging = NoNode /\ is_dragging' # NoNode

\* C26: the hit test of a drag picks the nearest node: of the nodes within
\* the hit radius of the pointer, the one that becomes is_dragging is at the
\* least distance from it.
C26_NearestNodePicked ==
    [][\A pos \in HitPts :
          DragStart(pos) =>
            \A n \in DOMAIN positions :
                Dist2(positions[is_dragging'], pos) <= Dist2(positions[n], pos)]_vars

\* what holds: the node picked is within the hit radius of the pointer
C26_PickedWithinRadius ==
    [][\A pos \in HitPts :
          DragStart(pos) =>
            Dist2(positions[is_dragging'], pos) < HitRadius * HitRadius]_vars


\* C27: the fit-to-view of the first settling is applied to the loaded graph:
\* initial_layout_complete never becomes true while initialized is false.
C27_FitAfterInitialized == initial_layout_complete => initialized

\* what follows in the code: once the empty graph has settled, the settling of
\* the loaded graph is never followed by the fit of lines 218-222; the
\* viewport a settling step leaves is the one reset_layout fitted
C27_NoFitOnLaterSettle ==
    [][(RunningStep /\ initial_layout_complete /\ pc_ui' # "panicked") =>
          UNCHANGED <<zoom_level, pan_offset, min_zoom_level>>]_vars


\* C28: the drag override lasts only as long as the pointer drag: between
\* frames, when no pointer drag is in progress, is_dragging is None.
C28_OverrideEndsWithDrag ==
    (pc_ui = "keys" /\ ~pointer_drag) => is_dragging = NoNode

\* what holds: in Pan mode a frame whose response is not dragged ends without
\* a dragged node
C28_ClearedInPanMode ==
    (pc_ui = "keys" /\ ~pointer_drag /\ interaction_mode = "Pan") => is_dragging = NoNode


\* C30: the ingestion thread and the interface thread cannot deadlock on the
\* mutexes: a thread that takes the graph lock holds neither the positions nor
\* the histogram lock, a thread that takes the positions lock holds no
\* histogram lock, and the two threads never wait for each other.
UiWaits ==
    /\ TwoLockPhase
    /\ UiHeld # {}
    /\ Cardinality(UiHeld) < 2
    /\ LockNamed(lock_order[Cardinality(UiHeld) + 1]) = "ingest"

IngestWaits ==
    \/ pc_in = "lock_graph" /\ graph_lock = "ui"
    \/ pc_in = "lock_pos" /\ positions_lock = "ui"
    \/ pc_in = "finish" /\ weighted /\ hist_lock = "ui"

InOrder ==
    /\ \A who \in {"ui", "ingest"} :
         /\ (graph_lock # who /\ graph_lock' = who) =>
               (positions_lock # who /\ hist_lock # who)
         /\ (positions_lock # who /\ positions_lock' = who) => hist_lock # who

\* C30: no step takes a lock out of the order graph, positions, histogram, and
\* in no state each thread waits for a lock the other holds.
C30_NoDeadlock == [](~(UiWaits /\ IngestWaits)) /\ [][InOrder]_vars

\* the interface thread holds the graph lock of update_layout or of the draw
\* while the ingestion thread is about to take it
C30_Witness == UiHeld = {"graph"} /\ pc_in = "lock_graph"

====
